---- MODULE Spec2Model ----
(***************************************************************************)
(* Model of the VirtualInterview model pipeline:                           *)
(*   - utils/groq   (src/unnamed/part_001): rate limiter, model client,    *)
(*                   response parser, answer scorer;                       *)
(*   - api/analyze  (src/unnamed/part_000, lines 1-81): the scoring route. *)
(*                                                                         *)
(* Time.  The server is one JavaScript event loop.  A turn of the loop (a  *)
(* handler run up to its next wait on a timer or on the network, together  *)
(* with the microtask continuations it schedules) is taken to be           *)
(* instantaneous: the clock advances only between turns.  Date.now() is    *)
(* taken to be monotonic and setTimeout never to fire early.               *)
(*                                                                         *)
(* Text.  Strings the code folds or compares by letter case are sequences  *)
(* of one-character strings; numbers the scorer divides are exact          *)
(* rationals <<numerator, denominator>> with a positive denominator.       *)
(***************************************************************************)
EXTENDS Integers, Sequences, FiniteSets, TLC

(***************************************************************************)
(* Bounds of the model.                                                    *)
(***************************************************************************)
\* the clock value at which the process starts serving (any value >= the
\* interval behaves alike: Date.now() is far larger than lastRequestTime = 0)
StartClock == 3000
\* the clock stops advancing here
MaxClock == 12000
\* makeGroqRequest invocations that reach the rate limiter in one behaviour
\* of the timing workload
MaxCalls == 3
\* the same, in the scoring workload
MaxScoredCalls == 1

\* concurrent invocations of the route handler
Callers == {1, 2}

(***************************************************************************)
(* Program constants.                                                      *)
(***************************************************************************)
MIN_REQUEST_INTERVAL == 3000

\* the amounts by which the clock advances between two turns
TickSteps == {MIN_REQUEST_INTERVAL \div 2, MIN_REQUEST_INTERVAL - 1}

VARIABLES
    GROQ_API_KEY,     \* TRUE iff process.env.NEXT_PUBLIC_GROQ_API_KEY is set
    clock,            \* Date.now()
    lastRequestTime,  \* the rate limiter's timestamp
    pc,               \* per caller: where its makeGroqRequest is suspended
    wakeAt,           \* per caller: when its sleep timer is due
    seenLast,         \* per caller: the lastRequestTime it read on entry
    job,              \* per caller: the request body it is serving
    slotTimes,        \* history: clock at each return of waitForRateLimit
    dispatchTimes,    \* history: clock at each fetch
    requests,         \* per caller: the fetches the invocation it has
                      \* under way has made so far
    overlap,          \* history: a caller entered waitForRateLimit while
                      \* another was suspended in it
    settled,          \* history: the remote reply behind `out`, if any
    out,              \* the last HTTP response a route produced
    scenario,         \* the workload of this behaviour: the bodies clients
                      \* post, the replies the remote service gives, and
                      \* how many model requests are made
    applied,          \* a function of the pipeline taken on its own: its
                      \* name and the arguments it is applied to
    returned,         \* ... and what it returns or throws
    search,           \* the interview page: the parameters of its URL
    page,             \* ... the state of the component
    pending,          \* ... the requests it has in flight, in order of issue
    location,         \* ... the route the browser shows
    localStorage,     \* ... the browser's localStorage
    elapsed,          \* ... milliseconds since the countdown's interval was
                      \* set or last fired
    sent,             \* history: the question requests the page has issued
    failed            \* history: a request of the page has failed

\* the variables of the browser
browser == <<search, page, pending, location, localStorage, elapsed, sent,
             failed>>

vars == <<GROQ_API_KEY, clock, lastRequestTime, pc, wakeAt, seenLast, job,
          slotTimes, dispatchTimes, requests, overlap, settled, out, scenario,
          applied, returned, browser>>

(***************************************************************************)
(* Text: letter case (String.prototype.toUpperCase / toLowerCase on the    *)
(* letters a-z and A-Z; every other character is its own image).           *)
(***************************************************************************)
LowerAlphabet ==
    <<"a", "b", "c", "d", "e", "f", "g", "h", "i", "j", "k", "l", "m", "n",
      "o", "p", "q", "r", "s", "t", "u", "v", "w", "x", "y", "z">>

UpperAlphabet ==
    <<"A", "B", "C", "D", "E", "F", "G", "H", "I", "J", "K", "L", "M", "N",
      "O", "P", "Q", "R", "S", "T", "U", "V", "W", "X", "Y", "Z">>

LowerLetters == {LowerAlphabet[i] : i \in DOMAIN LowerAlphabet}

UpperOf ==
    [ch \in LowerLetters |->
        UpperAlphabet[CHOOSE i \in DOMAIN LowerAlphabet : LowerAlphabet[i] = ch]]

UpperChar(ch) == IF ch \in LowerLetters THEN UpperOf[ch] ELSE ch

UpperLetters == {UpperAlphabet[i] : i \in DOMAIN UpperAlphabet}

LowerOf ==
    [ch \in UpperLetters |->
        LowerAlphabet[CHOOSE i \in DOMAIN UpperAlphabet : UpperAlphabet[i] = ch]]

LowerChar(ch) == IF ch \in UpperLetters THEN LowerOf[ch] ELSE ch

toUpperCase(s) == [i \in DOMAIN s |-> UpperChar(s[i])]

toLowerCase(s) == [i \in DOMAIN s |-> LowerChar(s[i])]

\* a JavaScript string is truthy iff it is not empty
truthy(s) == Len(s) > 0

\* String.prototype.includes: `needle` occurs in `s`, letter case and all
includes(s, needle) ==
    \E i \in 0..(Len(s) - Len(needle)) :
        SubSeq(s, i + 1, i + Len(needle)) = needle

\* the string whose characters are cs
RECURSIVE Text(_)
Text(cs) ==
    IF Len(cs) = 0 THEN ""
    ELSE IF Len(cs) = 1 THEN cs[1]
    ELSE Text(SubSeq(cs, 1, Len(cs) \div 2))
             \o Text(SubSeq(cs, Len(cs) \div 2 + 1, Len(cs)))

(***************************************************************************)
(* Exact rationals <<n, d>>, d > 0.                                        *)
(***************************************************************************)
RatLe(x, y) == x[1] * y[2] <= y[1] * x[2]

RatLt(x, y) == x[1] * y[2] < y[1] * x[2]

RatEq(x, y) == x[1] * y[2] = y[1] * x[2]

RatMin(x, y) == IF RatLe(x, y) THEN x ELSE y

RatMax(x, y) == IF RatLe(x, y) THEN y ELSE x

RatDiv10(x) == <<x[1], x[2] * 10>>

TEN == <<10, 1>>

ZERO == <<0, 1>>

(***************************************************************************)
(* JSON values as JSON.parse yields them.  A number is a finite rational,  *)
(* or an infinity (JSON.parse("1e999") is Infinity).                       *)
(***************************************************************************)
JNum(n, d) == [t |-> "number", q |-> <<n, d>>, inf |-> 0, a |-> <<>>]

JInf(sign) == [t |-> "number", q |-> <<0, 1>>, inf |-> sign, a |-> <<>>]

JStr(s) == [t |-> "string", q |-> <<0, 1>>, inf |-> 0, a |-> <<s>>]

JNull == [t |-> "null", q |-> <<0, 1>>, inf |-> 0, a |-> <<>>]

JArr(items) == [t |-> "array", q |-> <<0, 1>>, inf |-> 0, a |-> items]

isArray(v) == v.t = "array"

JUndefined == [t |-> "undefined", q |-> <<0, 1>>, inf |-> 0, a |-> <<>>]

\* a JSON object: a function from the names of its fields to their values
EmptyObj == [f \in {} |-> JNull]

\* obj[f], or undefined when the object has no such field
field(obj, f) == IF f \in DOMAIN obj THEN obj[f] ELSE JUndefined

(***************************************************************************)
(* Results of the functions that can throw: a value, or an Error with its  *)
(* message.                                                                *)
(***************************************************************************)
Ok(v) == [ok |-> TRUE, err |-> "", val |-> v]

Err(msg) == [ok |-> FALSE, err |-> msg, val |-> EmptyObj]

(***************************************************************************)
(* Rate limiter (waitForRateLimit).                                        *)
(***************************************************************************)
timeSinceLastRequest(now, last) == now - last

\* mutant: the comparison turned around
mustWaitReversed(now, last) ==
    timeSinceLastRequest(now, last) > MIN_REQUEST_INTERVAL

mustWait(now, last) == timeSinceLastRequest(now, last) < MIN_REQUEST_INTERVAL

\* mutant: sleeps the whole interval, whatever has already elapsed
waitTimeWhole(now, last) == MIN_REQUEST_INTERVAL

\* mutant: sleeps the elapsed time added to the interval
waitTimeAdded(now, last) ==
    MIN_REQUEST_INTERVAL + timeSinceLastRequest(now, last)

waitTime(now, last) == MIN_REQUEST_INTERVAL - timeSinceLastRequest(now, last)

(***************************************************************************)
(* Model client (makeGroqRequest): what it returns or throws once the      *)
(* fetch has settled.  A reply r of the remote service is                  *)
(*   [net: "fail" | "http", status, envelope, content]                     *)
(* where envelope says what response.json() gives ("notjson": it throws;   *)
(* "nocontent": no choices[0].message.content; "content": there is one).   *)
(***************************************************************************)
responseOk(status) == status \in 200..299

\* mutant: every failure is the generic one
statusErrorGeneric(status) == "API request failed"

statusError(status) ==
    IF status = 429 THEN "Rate limit exceeded" ELSE "API request failed"

makeGroqReply(r) ==
    IF r.net = "fail" THEN Err("fetch failed")
    ELSE IF ~responseOk(r.status) THEN Err(statusError(r.status))
    ELSE IF r.envelope = "notjson" THEN Err("Unexpected token in JSON")
    ELSE [ok |-> TRUE, err |-> "", val |-> r]

(***************************************************************************)
(* Response parser (parseJsonResponse) on a completion text, given by what *)
(* the text is:                                                            *)
(*   json = "notstring"  not a string                                      *)
(*          "none"       no "{" followed later by "}"                      *)
(*          "broken"     the span parses neither as is nor repaired        *)
(*          "repairable" the span parses only after the repair pass        *)
(*          "object"     the span parses as is                             *)
(* and obj, the object the successful parse yields.                        *)
(***************************************************************************)
missingFields(obj, requiredFields) == {f \in requiredFields : f \notin DOMAIN obj}

parseJsonResponse(content, requiredFields) ==
    IF content.json = "notstring" THEN Err("Response must be a non-empty string")
    ELSE IF content.json = "none" THEN Err("No JSON object found in response")
    ELSE IF /\ content.json = "object"
            /\ missingFields(content.obj, requiredFields) = {}
         THEN Ok(content.obj)
    \* every throw of the first attempt, the missing-fields one included,
    \* lands in the catch that runs the repair pass
    ELSE IF /\ content.json = "repairable"
            /\ missingFields(content.obj, requiredFields) = {}
         THEN Ok(content.obj)
    ELSE Err("Failed to parse response as JSON")

(***************************************************************************)
(* Answer scorer, model path (analyzeResponse after the request).          *)
(***************************************************************************)
AnalysisFields == {"score", "feedback", "coveredTopics", "missingTopics"}

\* result.score > 10
scoreAbove10(v) == v.inf = 1 \/ (v.inf = 0 /\ RatLt(TEN, v.q))

\* mutant: the division forgotten
percentToTenUndivided(v) == IF v.inf = 1 THEN TEN ELSE RatMin(TEN, v.q)

\* Math.min(10, result.score / 10)
percentToTen(v) == IF v.inf = 1 THEN TEN ELSE RatMin(TEN, RatDiv10(v.q))

\* Math.max(0, Math.min(10, x)) for a finite or infinite number
clampScore(v) ==
    IF v.inf = 1 THEN TEN
    ELSE IF v.inf = -1 THEN ZERO
    ELSE RatMax(ZERO, RatMin(TEN, v.q))

normalizeScore(v) ==
    IF v.t = "number"
    THEN IF scoreAbove10(v)
         THEN LET p == percentToTen(v) IN clampScore(JNum(p[1], p[2]))
         ELSE clampScore(v)
    ELSE ZERO

\* mutant: only an absent field is coerced
coerceTopicsAbsentOnly(v) == IF v.t = "undefined" THEN JArr(<<>>) ELSE v

coerceTopics(v) == IF isArray(v) THEN v ELSE JArr(<<>>)

normalizeAnalysis(obj) ==
    [f \in DOMAIN obj \cup {"score", "coveredTopics", "missingTopics"} |->
        IF f = "score"
        THEN LET sc == normalizeScore(field(obj, f)) IN JNum(sc[1], sc[2])
        ELSE IF f \in {"coveredTopics", "missingTopics"}
        THEN coerceTopics(field(obj, f))
        ELSE obj[f]]

\* analyzeResponse from the settled request on
analyzeReply(r) ==
    LET api == makeGroqReply(r) IN
    IF ~api.ok THEN Err(api.err)
    ELSE IF r.envelope = "nocontent"
    THEN Err("Invalid response structure from GROQ API")
    ELSE LET result == parseJsonResponse(r.content, AnalysisFields) IN
         IF ~result.ok THEN Err(result.err)
         ELSE Ok(normalizeAnalysis(result.val))

(***************************************************************************)
(* The analyze route (POST).  A request body is                            *)
(*   [valid, question, response, expectedTopics, questionType,             *)
(*    correctOption, explanation]                                          *)
(* valid = FALSE when request.json() throws; an absent field is the empty  *)
(* string (falsy), an absent expectedTopics is JNull.                      *)
(***************************************************************************)
MCQ == <<"m", "c", "q">>

\* mutant: the type compared without folding its case
isMcqExact(questionType) == questionType = MCQ

isMcq(questionType) == toLowerCase(questionType) = MCQ

\* mutant: the question type is not looked for
hasRequiredFieldsButType(body) ==
    /\ body.question # ""
    /\ truthy(body.response)
    /\ body.expectedTopics.t # "null"

hasRequiredFields(body) ==
    /\ body.question # ""
    /\ truthy(body.response)
    /\ body.expectedTopics.t # "null"
    /\ truthy(body.questionType)

\* mutant: the labels compared without folding their case
isCorrectExact(response, correctOption) == response = correctOption

isCorrect(response, correctOption) ==
    toUpperCase(response) = toUpperCase(correctOption)

\* mutant: the two topic lists exchanged
mcqAnalysisSwapped(body) ==
    LET correct == toUpperCase(body.response) = toUpperCase(body.correctOption) IN
    [score |-> IF correct THEN JNum(10, 1) ELSE JNum(0, 1),
     feedback |-> JStr(<<"", body.explanation>>),
     coveredTopics |-> IF correct THEN JArr(<<>>) ELSE body.expectedTopics,
     missingTopics |-> IF correct THEN body.expectedTopics ELSE JArr(<<>>)]

mcqAnalysis(body) ==
    LET correct == isCorrect(body.response, body.correctOption) IN
    [score |-> IF correct THEN JNum(10, 1) ELSE JNum(0, 1),
     feedback |->
        IF correct
        THEN JStr(<<"Correct! ", body.explanation>>)
        ELSE JStr(<<"Incorrect. The correct answer is ", body.correctOption,
                    ". ", body.explanation>>),
     coveredTopics |-> IF correct THEN body.expectedTopics ELSE JArr(<<>>),
     missingTopics |-> IF correct THEN JArr(<<>>) ELSE body.expectedTopics]

\* an HTTP response of a route
Response(route, status, error, details, body, analysis) ==
    [route |-> route, status |-> status, error |-> error, details |-> details,
     body |-> body, analysis |-> analysis]

\* the body of no request
NoBody ==
    [valid |-> FALSE, question |-> "", response |-> <<>>,
     expectedTopics |-> JNull, questionType |-> <<>>, correctOption |-> <<>>,
     explanation |-> ""]

\* mutant: the credential is looked at only after the slot was awaited
answersAtOnceKeyLate(body, apiKey) ==
    \/ ~body.valid
    \/ ~hasRequiredFields(body)
    \/ toLowerCase(body.questionType) = MCQ
    \/ ~isArray(body.expectedTopics)

\* the route answers in its first turn, without a model request, when ...
answersAtOnce(body, apiKey) ==
    \/ ~body.valid
    \/ ~hasRequiredFields(body)
    \/ isMcq(body.questionType)
    \/ ~apiKey                           \* analyzeResponse throws first
    \/ ~isArray(body.expectedTopics)     \* expectedTopics.map is no function

\* ... with this response
analyzeAtOnce(body, apiKey) ==
    IF ~body.valid
    THEN Response("analyze", 400, "Invalid request body", "", body, EmptyObj)
    ELSE IF ~hasRequiredFields(body)
    THEN Response("analyze", 400, "Missing required fields", "", body, EmptyObj)
    ELSE IF isMcq(body.questionType)
    THEN IF ~truthy(body.correctOption)
         THEN Response("analyze", 400, "Missing correct option for MCQ", "",
                       body, EmptyObj)
         ELSE Response("analyze", 200, "", "", body, mcqAnalysis(body))
    ELSE IF ~apiKey
    THEN Response("analyze", 500, "Failed to analyze response",
                  "GROQ API key is not configured", body, EmptyObj)
    ELSE Response("analyze", 500, "Failed to analyze response",
                  "expectedTopics.map is not a function", body, EmptyObj)

\* the route's response once the model request has settled with reply r
analyzeSettled(body, r) ==
    LET analysis == analyzeReply(r) IN
    IF analysis.ok
    THEN Response("analyze", 200, "", "", body, analysis.val)
    ELSE Response("analyze", 500, "Failed to analyze response", analysis.err,
                  body, EmptyObj)

(***************************************************************************)
(* JSON values the question pipeline looks into: booleans and nested       *)
(* objects, and the JavaScript operators the validator applies to them.    *)
(***************************************************************************)
JBool(b) ==
    [t |-> "boolean", q |-> <<IF b THEN 1 ELSE 0, 1>>, inf |-> 0, a |-> <<>>]

\* fields: a function from member names to JSON values
JObj(fields) ==
    [t |-> "object", q |-> <<0, 1>>, inf |-> 0, a |-> <<>>, o |-> fields]

\* !!v
jsTruthy(v) ==
    CASE v.t \in {"undefined", "null"} -> FALSE
      [] v.t = "boolean" -> v.q[1] = 1
      [] v.t = "number" -> v.inf # 0 \/ v.q[1] # 0
      [] v.t = "string" -> v.a # <<"">>
      [] OTHER -> TRUE

\* typeof v
typeOf(v) == IF v.t \in {"null", "array", "object"} THEN "object" ELSE v.t

\* v[name] for a member name no array and no primitive has; v is neither
\* null nor undefined
prop(v, name) == IF v.t = "object" THEN field(v.o, name) ELSE JUndefined

\* name in v, for v an object or an array and a name no array has
has(v, name) == v.t = "object" /\ name \in DOMAIN v.o

(***************************************************************************)
(* JSON.parse on a text, a sequence of characters.  A character is a       *)
(* one-character string; "BS", "FF" and "ZWSP" stand for the backspace,    *)
(* the form feed and the zero-width space U+200B, and the character a      *)
(* \uXXXX escape denotes is written "U+XXXX".  A value a step works on is  *)
(* an argument of the operator that takes the step.                        *)
(***************************************************************************)
Min(S) == CHOOSE i \in S : \A j \in S : i <= j

Max(S) == CHOOSE i \in S : \A j \in S : i >= j

\* the characters of a text
chars(text) == {text[i] : i \in DOMAIN text}

\* where the run of characters of class `cls` that starts at i ends
skipClass(s, i, cls) ==
    Min({k \in i..Len(s) : s[k] \notin cls} \cup {Len(s) + 1})

JsonWhite == {" ", "\t", "\n", "\r"}

skipWhite(s, i) == skipClass(s, i, JsonWhite)

DigitSeq == <<"0", "1", "2", "3", "4", "5", "6", "7", "8", "9">>

DigitChars == {DigitSeq[i] : i \in DOMAIN DigitSeq}

digitValue(ch) == (CHOOSE i \in DOMAIN DigitSeq : DigitSeq[i] = ch) - 1

HexDigits ==
    DigitChars \cup {"a", "b", "c", "d", "e", "f", "A", "B", "C", "D", "E", "F"}

\* the characters below U+0020, which no JSON string holds unescaped
ControlChars == {"\t", "\n", "\r", "BS", "FF"}

\* the character a two-character escape sequence denotes
Escapes ==
    [e \in {"\"", "\\", "/", "b", "f", "n", "r", "t"} |->
        CASE e = "b" -> "BS" [] e = "f" -> "FF" [] e = "n" -> "\n"
          [] e = "r" -> "\r" [] e = "t" -> "\t" [] OTHER -> e]

\* the outcome of parsing a value: the value and the position after it
NoParse == [ok |-> FALSE, val |-> JNull, next |-> 0]

Parsed(v, next) == [ok |-> TRUE, val |-> v, next |-> next]

\* `word` stands in s at position i
startsWith(s, i, word) ==
    /\ i + Len(word) - 1 <= Len(s)
    /\ SubSeq(s, i, i + Len(word) - 1) = word

\* the characters that end a run of plain characters of a string
StringBreaks == {"\"", "\\"} \cup ControlChars

RECURSIVE parseChars(_, _, _)

\* the rest of a string whose plain characters from i on stop at `stop`,
\* `acc` the characters of the string before i
charsUpTo(s, i, stop, acc) ==
    IF stop > Len(s) \/ s[stop] \in ControlChars THEN NoParse
    ELSE IF s[stop] = "\""
    THEN Parsed(JStr(Text(acc \o SubSeq(s, i, stop - 1))), stop + 1)
    ELSE IF stop = Len(s) THEN NoParse
    ELSE IF s[stop + 1] \in DOMAIN Escapes
    THEN parseChars(s, stop + 2,
                    acc \o SubSeq(s, i, stop - 1) \o <<Escapes[s[stop + 1]]>>)
    ELSE IF /\ s[stop + 1] = "u"
            /\ stop + 5 <= Len(s)
            /\ \A k \in 2..5 : s[stop + k] \in HexDigits
    THEN parseChars(s, stop + 6,
                    acc \o SubSeq(s, i, stop - 1)
                        \o <<"U+" \o Text(SubSeq(s, stop + 2, stop + 5))>>)
    ELSE NoParse

\* the rest of a string from position i on
parseChars(s, i, acc) ==
    charsUpTo(s, i, skipClass(s, i, chars(s) \ StringBreaks), acc)

\* the digits from position i on: their value after `n`, and where they end
RECURSIVE parseDigits(_, _, _)
parseDigits(s, i, n) ==
    IF i <= Len(s) /\ s[i] \in DigitChars
    THEN parseDigits(s, i + 1, 10 * n + digitValue(s[i]))
    ELSE [n |-> n, next |-> i]

RECURSIVE pow10(_)
pow10(k) == IF k = 0 THEN 1 ELSE 10 * pow10(k - 1)

\* a number: -? int frac? exp?
parseNumber(s, i) ==
    LET first == IF s[i] = "-" THEN i + 1 ELSE i
        sign == IF s[i] = "-" THEN -1 ELSE 1
        int == parseDigits(s, first, 0)
        hasFrac == int.next <= Len(s) /\ s[int.next] = "."
        frac == IF hasFrac THEN parseDigits(s, int.next + 1, int.n) ELSE int
        places == IF hasFrac THEN frac.next - (int.next + 1) ELSE 0
        hasExp == frac.next <= Len(s) /\ s[frac.next] \in {"e", "E"}
        signed == hasExp /\ frac.next + 1 <= Len(s)
                         /\ s[frac.next + 1] \in {"+", "-"}
        expAt == IF signed THEN frac.next + 2 ELSE frac.next + 1
        exp == IF hasExp THEN parseDigits(s, expAt, 0) ELSE frac
        down == signed /\ s[frac.next + 1] = "-"
    IN  IF int.next = first THEN NoParse                   \* no digit
        ELSE IF s[first] = "0" /\ int.next > first + 1 THEN NoParse
        ELSE IF hasFrac /\ places = 0 THEN NoParse
        ELSE IF hasExp /\ exp.next = expAt THEN NoParse
        ELSE IF hasExp /\ ~down
        THEN Parsed(JNum(sign * frac.n * pow10(exp.n), pow10(places)), exp.next)
        ELSE IF hasExp
        THEN Parsed(JNum(sign * frac.n, pow10(places) * pow10(exp.n)), exp.next)
        ELSE Parsed(JNum(sign * frac.n, pow10(places)), frac.next)

RECURSIVE parseValue(_, _)
RECURSIVE parseMembers(_, _, _)
RECURSIVE parseElements(_, _, _)

\* the outcome of parsing a member of an object: its name, its value and
\* the position of the "," or "}" due after it
NoMember == [ok |-> FALSE, name |-> "", val |-> JNull, next |-> 0]

\* the member `name`, whose value parsed as v
memberValued(s, name, v) ==
    IF ~v.ok THEN NoMember
    ELSE [ok |-> TRUE, name |-> name, val |-> v.val,
          next |-> skipWhite(s, v.next)]

\* the member whose name parsed as key
memberNamed(s, key) ==
    IF ~key.ok THEN NoMember
    ELSE IF skipWhite(s, key.next) > Len(s) THEN NoMember
    ELSE IF s[skipWhite(s, key.next)] # ":" THEN NoMember
    ELSE memberValued(s, key.val.a[1],
                      parseValue(s, skipWhite(s, key.next) + 1))

\* the member that starts at position i
parseMember(s, i) ==
    IF i > Len(s) \/ s[i] # "\"" THEN NoMember
    ELSE memberNamed(s, parseChars(s, i + 1, <<>>))

\* the members acc with member `name` set to val: a name given twice keeps
\* its last value
put(acc, name, val) ==
    [g \in DOMAIN acc \cup {name} |-> IF g = name THEN val ELSE acc[g]]

\* the rest of an object after its member m, `acc` the members before m
parseMembers(s, acc, m) ==
    IF m.ok /\ m.next <= Len(s) /\ s[m.next] = ","
    THEN parseMembers(s, put(acc, m.name, m.val),
                      parseMember(s, skipWhite(s, m.next + 1)))
    ELSE IF m.ok /\ m.next <= Len(s) /\ s[m.next] = "}"
    THEN Parsed(JObj(put(acc, m.name, m.val)), m.next + 1)
    ELSE NoParse

\* the rest of an array after its element v, `acc` the elements before v
parseElements(s, acc, v) ==
    IF v.ok /\ skipWhite(s, v.next) <= Len(s) /\ s[skipWhite(s, v.next)] = ","
    THEN parseElements(s, Append(acc, v.val),
                       parseValue(s, skipWhite(s, v.next) + 1))
    ELSE IF /\ v.ok
            /\ skipWhite(s, v.next) <= Len(s)
            /\ s[skipWhite(s, v.next)] = "]"
    THEN Parsed(JArr(Append(acc, v.val)), skipWhite(s, v.next) + 1)
    ELSE NoParse

\* the object or array whose text goes on at position i, after its opening
\* bracket and white space
objectFrom(s, i) ==
    IF i <= Len(s) /\ s[i] = "}" THEN Parsed(JObj(EmptyObj), i + 1)
    ELSE parseMembers(s, EmptyObj, parseMember(s, i))

arrayFrom(s, i) ==
    IF i <= Len(s) /\ s[i] = "]" THEN Parsed(JArr(<<>>), i + 1)
    ELSE parseElements(s, <<>>, parseValue(s, i))

\* the value that starts at position i
valueAt(s, i) ==
    IF i > Len(s) THEN NoParse
    ELSE IF s[i] = "{" THEN objectFrom(s, skipWhite(s, i + 1))
    ELSE IF s[i] = "[" THEN arrayFrom(s, skipWhite(s, i + 1))
    ELSE IF s[i] = "\"" THEN parseChars(s, i + 1, <<>>)
    ELSE IF s[i] \in DigitChars \cup {"-"} THEN parseNumber(s, i)
    ELSE IF startsWith(s, i, <<"t", "r", "u", "e">>)
    THEN Parsed(JBool(TRUE), i + 4)
    ELSE IF startsWith(s, i, <<"f", "a", "l", "s", "e">>)
    THEN Parsed(JBool(FALSE), i + 5)
    ELSE IF startsWith(s, i, <<"n", "u", "l", "l">>)
    THEN Parsed(JNull, i + 4)
    ELSE NoParse

\* the value that starts at or after position `from`, white space skipped
parseValue(s, from) == valueAt(s, skipWhite(s, from))

\* the value v, if nothing but white space follows it in s
whole(s, v) ==
    IF v.ok /\ skipWhite(s, v.next) = Len(s) + 1 THEN v ELSE NoParse

\* JSON.parse(text): a value and nothing but white space around it
JSONparse(text) ==
    IF text = <<>> THEN NoParse ELSE whole(text, parseValue(text, 1))

(***************************************************************************)
(* Response parser (parseJsonResponse) on the characters of a completion   *)
(* text: the span the regular expression /\{[\s\S]*\}/ matches, the repair *)
(* pass (nine String.prototype.replace calls) and the two parse attempts.  *)
(***************************************************************************)
\* the positions of character ch in s
positions(s, ch) == {i \in DOMAIN s : s[i] = ch}

NoMatch == [found |-> FALSE, span |-> <<>>]

\* a match that ends at the first "}" after the first "{"
jsonMatchShortest(response) ==
    LET open == positions(response, "{")
        close == {j \in positions(response, "}") : j > Min(open)}
    IN  IF open = {} \/ close = {} THEN NoMatch
        ELSE [found |-> TRUE, span |-> SubSeq(response, Min(open), Min(close))]

\* a match that takes the braces in either order
jsonMatchUnordered(response) ==
    LET open == positions(response, "{")
        close == positions(response, "}")
    IN  IF open = {} \/ close = {} THEN NoMatch
        ELSE [found |-> TRUE, span |-> SubSeq(response, Min(open), Max(close))]

\* response.match(/\{[\s\S]*\}/): the leftmost "{" that a "}" follows, and
\* greedily everything up to the last "}"
jsonMatch(response) ==
    LET open == positions(response, "{")
        close == positions(response, "}")
    IN  IF open = {} \/ close = {} \/ Max(close) < Min(open) THEN NoMatch
        ELSE [found |-> TRUE, span |-> SubSeq(response, Min(open), Max(close))]

\* the classes \s and \w, and the zero-width characters [\u200B-\u200D\uFEFF]
SpaceClass == {" ", "\t", "\n", "\r", "FF"}

WordClass == LowerLetters \cup UpperLetters \cup DigitChars \cup {"_"}

ZeroWidth == {"ZWSP"}

\* s.replace(/pattern/g, replacement).  `matches` maps each position of s
\* where the pattern matches to the last position of the match (end) and to
\* the text that replaces it (image).  The scan goes from the left: it takes
\* the leftmost match at or after position i and resumes after its end.
RECURSIVE replaceFrom(_, _, _)

replaceAt(s, matches, i, at) ==
    IF at > Len(s) THEN SubSeq(s, i, Len(s))
    ELSE SubSeq(s, i, at - 1) \o matches[at].image
             \o replaceFrom(s, matches, matches[at].end + 1)

replaceFrom(s, matches, i) ==
    replaceAt(s, matches, i,
              Min({k \in DOMAIN matches : k >= i} \cup {Len(s) + 1}))

replaceAll(s, matches) == IF s = <<>> THEN s ELSE replaceFrom(s, matches, 1)

\* .replace(/^\s*|\s*$/g, '')
trimSpace(s) ==
    LET kept == {k \in DOMAIN s : s[k] \notin SpaceClass} IN
    IF kept = {} THEN <<>> ELSE SubSeq(s, Min(kept), Max(kept))

\* .replace(/[\u200B-\u200D\uFEFF]/g, '')
removeZeroWidth(s) ==
    replaceAll(s, [k \in {j \in DOMAIN s : s[j] \in ZeroWidth} |->
                      [end |-> k, image |-> <<>>]])

\* .replace(/,(\s*[}\]])/g, '$1')
removeTrailingCommas(s) ==
    LET closeOf(k) == skipClass(s, k + 1, SpaceClass) IN
    replaceAll(s, [k \in {j \in DOMAIN s :
                             /\ s[j] = ","
                             /\ closeOf(j) <= Len(s)
                             /\ s[closeOf(j)] \in {"}", "]"}} |->
                      [end |-> closeOf(k),
                       image |-> SubSeq(s, k + 1, closeOf(k))]])

\* .replace(/([{,]\s*)(\w+)(\s*:)/g, '$1"$2"$3')
quoteKeys(s) ==
    LET wordOf(k) == skipClass(s, k + 1, SpaceClass)
        gapOf(k) == skipClass(s, wordOf(k), WordClass)
        colonOf(k) == skipClass(s, gapOf(k), SpaceClass)
    IN  replaceAll(s, [k \in {j \in DOMAIN s :
                                 /\ s[j] \in {"{", ","}
                                 /\ gapOf(j) > wordOf(j)
                                 /\ colonOf(j) <= Len(s)
                                 /\ s[colonOf(j)] = ":"} |->
                          [end |-> colonOf(k),
                           image |-> SubSeq(s, k, wordOf(k) - 1) \o <<"\"">>
                                         \o SubSeq(s, wordOf(k), gapOf(k) - 1)
                                         \o <<"\"">>
                                         \o SubSeq(s, gapOf(k), colonOf(k))]])

\* .replace(/:\s*'([^']*)'/g, ':"$1"')
singleToDouble(s) ==
    LET openOf(k) == skipClass(s, k + 1, SpaceClass)
        closeOf(k) == skipClass(s, openOf(k) + 1, chars(s) \ {"'"})
    IN  replaceAll(s, [k \in {j \in DOMAIN s :
                                 /\ s[j] = ":"
                                 /\ openOf(j) <= Len(s)
                                 /\ s[openOf(j)] = "'"
                                 /\ closeOf(j) <= Len(s)} |->
                          [end |-> closeOf(k),
                           image |-> <<":", "\"">>
                                         \o SubSeq(s, openOf(k) + 1,
                                                   closeOf(k) - 1)
                                         \o <<"\"">>]])

\* the characters [^"\\\/bfnrtu] excludes
EscapeClass == {"\"", "\\", "/", "b", "f", "n", "r", "t", "u"}

\* .replace(/\\([^"\\\/bfnrtu])/g, '$1')
dropInvalidEscapes(s) ==
    replaceAll(s, [k \in {j \in DOMAIN s :
                             /\ s[j] = "\\"
                             /\ j < Len(s)
                             /\ s[j + 1] \notin EscapeClass} |->
                      [end |-> k + 1, image |-> <<s[k + 1]>>]])

\* .replace(/ch/g, '\\letter') for a single character ch
escapeChar(s, ch, letter) ==
    replaceAll(s, [k \in positions(s, ch) |->
                      [end |-> k, image |-> <<"\\", letter>>]])

\* the repair pass: the chain of replacements applied to the span
repair(cleanedResponse) ==
    escapeChar(
        escapeChar(
            escapeChar(
                dropInvalidEscapes(
                    singleToDouble(
                        quoteKeys(
                            removeTrailingCommas(
                                removeZeroWidth(
                                    trimSpace(cleanedResponse)))))),
                "\n", "n"),
            "\r", "r"),
        "\t", "t")

\* messages of the errors parseJsonResponse throws, each the fixed part of
\* the message; SYNTAX_ERROR stands for the message of the SyntaxError that
\* JSON.parse throws
EMPTY_RESPONSE == "Response must be a non-empty string"

NO_JSON == "No JSON object found in response"

MISSING_FIELDS == "Missing required fields"

MISSING_AFTER_CLEANING == "Missing required fields after cleaning"

PARSE_FAILED == "Failed to parse response as JSON"

SYNTAX_ERROR == "SyntaxError"

\* the required-fields check on what JSON.parse gave; its error has the
\* message missingMessage
checkFields(parsed, requiredFields, missingMessage) ==
    IF ~parsed.ok THEN Err(SYNTAX_ERROR)
    ELSE IF missingFields(parsed.val.o, requiredFields) # {}
    THEN Err(missingMessage)
    ELSE Ok(parsed.val.o)

\* the body of a try block: JSON.parse and the required-fields check
attempt(text, requiredFields, missingMessage) ==
    checkFields(JSONparse(text), requiredFields, missingMessage)

\* what a call of parseJsonResponse did: the outcome (ok, err, val as Ok and
\* Err give them), for the last error the errorMessage it embeds, the number
\* of JSON.parse calls, whether the repair pass ran, and the text the last
\* JSON.parse was given
Trace(res, detail, parses, repaired, text) ==
    [ok |-> res.ok, err |-> res.err, val |-> res.val, detail |-> detail,
     parses |-> parses, repaired |-> repaired, text |-> text]

\* the second try block has ended with `final`
afterFinal(cleaned, final) ==
    IF final.ok THEN Trace(final, "", 2, TRUE, cleaned)
    ELSE Trace(Err(PARSE_FAILED), final.err, 2, TRUE, cleaned)

\* the repair pass has given `cleaned`
afterRepair(cleaned, requiredFields) ==
    afterFinal(cleaned, attempt(cleaned, requiredFields, MISSING_AFTER_CLEANING))

\* the first try block has ended with `initial`: its handler drops the
\* error, whatever it is, and runs the repair pass
afterInitial(span, initial, requiredFields) ==
    IF initial.ok THEN Trace(initial, "", 1, FALSE, span)
    ELSE afterRepair(repair(span), requiredFields)

\* the regular expression has given m
afterMatch(m, requiredFields) ==
    IF ~m.found THEN Trace(Err(NO_JSON), "", 0, FALSE, <<>>)
    ELSE afterInitial(m.span,
                      attempt(m.span, requiredFields, MISSING_FIELDS),
                      requiredFields)

parseJsonText(response, requiredFields) ==
    IF response = <<>> THEN Trace(Err(EMPTY_RESPONSE), "", 0, FALSE, <<>>)
    ELSE afterMatch(jsonMatch(response), requiredFields)

\* the text in the terms of the parser on content kinds
contentOf(response) ==
    LET m == jsonMatch(response)
        parsed == JSONparse(m.span)
        reparsed == JSONparse(repair(m.span))
    IN  IF ~m.found THEN [json |-> "none", obj |-> EmptyObj]
        ELSE IF parsed.ok THEN [json |-> "object", obj |-> parsed.val.o]
        ELSE IF reparsed.ok THEN [json |-> "repairable", obj |-> reparsed.val.o]
        ELSE [json |-> "broken", obj |-> EmptyObj]

(***************************************************************************)
(* Question validator (validateQuestionResponse) on a parsed payload, a    *)
(* function from member names to JSON values.                              *)
(***************************************************************************)
SUBJECTIVE == <<"s", "u", "b", "j", "e", "c", "t", "i", "v", "e">>

CODING == <<"c", "o", "d", "i", "n", "g">>

QuestionFields == {"question", "expectedTopics", "difficulty", "modelAnswer"}

RequiredOptions == {"A", "B", "C", "D"}

\* questionType.toLowerCase() === name
isType(questionType, name) == toLowerCase(questionType) = name

\* mutant: the last label is not looked for
missingOptionsButLast(options) ==
    {opt \in RequiredOptions \ {"D"} : ~has(options, opt)}

missingOptions(options) == {opt \in RequiredOptions : ~has(options, opt)}

\* correctOption && requiredOptions.includes(correctOption)
validCorrectOption(correctOption) ==
    /\ jsTruthy(correctOption)
    /\ correctOption.t = "string"
    /\ correctOption.a[1] \in RequiredOptions

\* the type-specific checks on modelAnswer
validateModelAnswer(response, questionType) ==
    LET modelAnswer == response.modelAnswer
        options == prop(modelAnswer, "options")
        explanation == prop(modelAnswer, "explanation")
        content == prop(modelAnswer, "content")
    IN  IF modelAnswer.t \in {"null", "undefined"}
        THEN Err("Cannot read properties of null")     \* a TypeError
        ELSE IF isType(questionType, MCQ)
        THEN IF ~jsTruthy(options) \/ typeOf(options) # "object"
             THEN Err("MCQ response must include options object")
             ELSE IF missingOptions(options) # {}
             THEN Err("Missing MCQ options")
             ELSE IF ~validCorrectOption(prop(modelAnswer, "correctOption"))
             THEN Err("MCQ response must include a valid correctOption (A, B, C, or D)")
             ELSE IF ~jsTruthy(explanation) \/ typeOf(explanation) # "string"
             THEN Err("MCQ response must include an explanation")
             ELSE Ok(response)
        ELSE IF isType(questionType, CODING)
        THEN IF \/ ~jsTruthy(prop(modelAnswer, "isCode"))
                \/ typeOf(content) # "string"
             THEN Err("Coding response must include isCode flag and content")
             ELSE Ok(response)
        ELSE IF typeOf(content) # "string"
             THEN Err("Model answer must include content string")
             ELSE Ok(response)

\* !Array.isArray(response.expectedTopics)
topicsRejected(expectedTopics) == ~isArray(expectedTopics)

validateQuestionResponse(response, questionType) ==
    IF missingFields(response, QuestionFields) # {}
    THEN Err("Missing required fields")
    ELSE IF topicsRejected(response.expectedTopics)
    THEN Err("expectedTopics must be an array")
    ELSE IF typeOf(response.difficulty) # "number"
    THEN Err("difficulty must be a number")
    ELSE validateModelAnswer(response, questionType)

(***************************************************************************)
(* Prompt builder (generateQuestionPrompt).  A prompt is given by the      *)
(* template chosen and by what the template interpolates.                  *)
(***************************************************************************)
EASY == <<"E", "a", "s", "y">>

MEDIUM == <<"M", "e", "d", "i", "u", "m">>

HARD == <<"H", "a", "r", "d">>

\* difficulty === 'Easy' ? 1 : difficulty === 'Medium' ? 2 : 3
difficultyTier(difficulty) ==
    IF difficulty = EASY THEN 1 ELSE IF difficulty = MEDIUM THEN 2 ELSE 3

generateQuestionPrompt(technology, difficulty, questionNumber, questionType) ==
    [template |->
        IF isType(questionType, MCQ) THEN "mcq"
        ELSE IF isType(questionType, SUBJECTIVE) THEN "subjective"
        ELSE IF isType(questionType, CODING) THEN "coding"
        ELSE "general",
     technology |-> technology,
     difficulty |-> difficulty,
     questionNumber |-> questionNumber,
     tier |-> difficultyTier(difficulty)]

(***************************************************************************)
(* Question generator (generateQuestion) from the settled request on.      *)
(***************************************************************************)
generateReply(r, questionType) ==
    LET api == makeGroqReply(r) IN
    IF ~api.ok THEN Err(api.err)
    ELSE IF r.envelope = "nocontent"
    THEN Err("Invalid response structure from GROQ API")
    ELSE LET parsedResponse == parseJsonResponse(r.content, QuestionFields) IN
         IF ~parsedResponse.ok THEN Err(parsedResponse.err)
         ELSE validateQuestionResponse(parsedResponse.val, questionType)
(***************************************************************************)
(* The questions route (POST).  A request body is                          *)
(*   [valid, technology, difficulty, questionNumber, questionType]         *)
(* where valid says that request.json() gave an object; a member the       *)
(* request lacks is the empty string.                                      *)
(***************************************************************************)
WhiteSpace == {" ", "\t", "\n", "\r"}

\* String.prototype.trim
RECURSIVE trimStart(_)
trimStart(s) ==
    IF s # <<>> /\ Head(s) \in WhiteSpace THEN trimStart(Tail(s)) ELSE s

RECURSIVE trimEnd(_)
trimEnd(s) ==
    IF s # <<>> /\ s[Len(s)] \in WhiteSpace
    THEN trimEnd(SubSeq(s, 1, Len(s) - 1))
    ELSE s

trim(s) == trimEnd(trimStart(s))

\* decodeURIComponent on the characters the model uses: "%20" is a space,
\* any other "%" is no escape sequence and makes it throw
RECURSIVE decodeURIComponent(_)
decodeURIComponent(s) ==
    IF s = <<>> THEN Ok(<<>>)
    ELSE IF Head(s) # "%"
    THEN LET rest == decodeURIComponent(Tail(s)) IN
         IF rest.ok THEN Ok(<<Head(s)>> \o rest.val) ELSE rest
    ELSE IF Len(s) >= 3 /\ s[2] = "2" /\ s[3] = "0"
    THEN LET rest == decodeURIComponent(SubSeq(s, 4, Len(s))) IN
         IF rest.ok THEN Ok(<<" ">> \o rest.val) ELSE rest
    ELSE Err("URI malformed")

\* the texts of the error messages, character by character (of a message
\* that ends in details of the failure, the part before them)
MessageTexts ==
    {<<"G", "R", "O", "Q", " ", "A", "P", "I", " ", "k", "e", "y", " ", "i",
       "s", " ", "n", "o", "t", " ", "c", "o", "n", "f", "i", "g", "u", "r",
       "e", "d">>,
     <<"f", "e", "t", "c", "h", " ", "f", "a", "i", "l", "e", "d">>,
     <<"R", "a", "t", "e", " ", "l", "i", "m", "i", "t", " ", "e", "x", "c",
       "e", "e", "d", "e", "d">>,
     <<"A", "P", "I", " ", "r", "e", "q", "u", "e", "s", "t", " ", "f", "a",
       "i", "l", "e", "d">>,
     <<"U", "n", "e", "x", "p", "e", "c", "t", "e", "d", " ", "t", "o", "k",
       "e", "n", " ", "i", "n", " ", "J", "S", "O", "N">>,
     <<"I", "n", "v", "a", "l", "i", "d", " ", "r", "e", "s", "p", "o", "n",
       "s", "e", " ", "s", "t", "r", "u", "c", "t", "u", "r", "e", " ", "f",
       "r", "o", "m", " ", "G", "R", "O", "Q", " ", "A", "P", "I">>,
     <<"R", "e", "s", "p", "o", "n", "s", "e", " ", "m", "u", "s", "t", " ",
       "b", "e", " ", "a", " ", "n", "o", "n", "-", "e", "m", "p", "t", "y",
       " ", "s", "t", "r", "i", "n", "g">>,
     <<"N", "o", " ", "J", "S", "O", "N", " ", "o", "b", "j", "e", "c", "t",
       " ", "f", "o", "u", "n", "d", " ", "i", "n", " ", "r", "e", "s", "p",
       "o", "n", "s", "e">>,
     <<"F", "a", "i", "l", "e", "d", " ", "t", "o", " ", "p", "a", "r", "s",
       "e", " ", "r", "e", "s", "p", "o", "n", "s", "e", " ", "a", "s", " ",
       "J", "S", "O", "N">>,
     <<"M", "i", "s", "s", "i", "n", "g", " ", "r", "e", "q", "u", "i", "r",
       "e", "d", " ", "f", "i", "e", "l", "d", "s">>,
     <<"e", "x", "p", "e", "c", "t", "e", "d", "T", "o", "p", "i", "c", "s",
       " ", "m", "u", "s", "t", " ", "b", "e", " ", "a", "n", " ", "a", "r",
       "r", "a", "y">>,
     <<"d", "i", "f", "f", "i", "c", "u", "l", "t", "y", " ", "m", "u", "s",
       "t", " ", "b", "e", " ", "a", " ", "n", "u", "m", "b", "e", "r">>,
     <<"C", "a", "n", "n", "o", "t", " ", "r", "e", "a", "d", " ", "p", "r",
       "o", "p", "e", "r", "t", "i", "e", "s", " ", "o", "f", " ", "n", "u",
       "l", "l">>,
     <<"M", "C", "Q", " ", "r", "e", "s", "p", "o", "n", "s", "e", " ", "m",
       "u", "s", "t", " ", "i", "n", "c", "l", "u", "d", "e", " ", "o", "p",
       "t", "i", "o", "n", "s", " ", "o", "b", "j", "e", "c", "t">>,
     <<"M", "i", "s", "s", "i", "n", "g", " ", "M", "C", "Q", " ", "o", "p",
       "t", "i", "o", "n", "s">>,
     <<"M", "C", "Q", " ", "r", "e", "s", "p", "o", "n", "s", "e", " ", "m",
       "u", "s", "t", " ", "i", "n", "c", "l", "u", "d", "e", " ", "a", " ",
       "v", "a", "l", "i", "d", " ", "c", "o", "r", "r", "e", "c", "t", "O",
       "p", "t", "i", "o", "n", " ", "(", "A", ",", " ", "B", ",", " ", "C",
       ",", " ", "o", "r", " ", "D", ")">>,
     <<"M", "C", "Q", " ", "r", "e", "s", "p", "o", "n", "s", "e", " ", "m",
       "u", "s", "t", " ", "i", "n", "c", "l", "u", "d", "e", " ", "a", "n",
       " ", "e", "x", "p", "l", "a", "n", "a", "t", "i", "o", "n">>,
     <<"C", "o", "d", "i", "n", "g", " ", "r", "e", "s", "p", "o", "n", "s",
       "e", " ", "m", "u", "s", "t", " ", "i", "n", "c", "l", "u", "d", "e",
       " ", "i", "s", "C", "o", "d", "e", " ", "f", "l", "a", "g", " ", "a",
       "n", "d", " ", "c", "o", "n", "t", "e", "n", "t">>,
     <<"M", "o", "d", "e", "l", " ", "a", "n", "s", "w", "e", "r", " ", "m",
       "u", "s", "t", " ", "i", "n", "c", "l", "u", "d", "e", " ", "c", "o",
       "n", "t", "e", "n", "t", " ", "s", "t", "r", "i", "n", "g">>,
     <<"U", "R", "I", " ", "m", "a", "l", "f", "o", "r", "m", "e", "d">>}

RATE_LIMIT == <<"r", "a", "t", "e", " ", "l", "i", "m", "i", "t">>

\* the messages in which 'rate limit' occurs
RateLimitMessages == {Text(cs) : cs \in {m \in MessageTexts : includes(m, RATE_LIMIT)}}

\* error.message.includes('rate limit')
isRateLimitError(msg) == msg \in RateLimitMessages

\* the arguments the route passes to generateQuestion
cleanTechnology(body) == decodeURIComponent(trim(body.technology))

cleanDifficulty(body) == toLowerCase(trim(body.difficulty))

\* the prompt of the model request the route makes for `body`
promptOf(body) ==
    generateQuestionPrompt(cleanTechnology(body).val, cleanDifficulty(body),
                           body.questionNumber, body.questionType)

\* !technology || !difficulty || !questionType
lacksRequiredFields(body) ==
    \/ ~truthy(body.technology)
    \/ ~truthy(body.difficulty)
    \/ ~truthy(body.questionType)

\* the route's answer to an error thrown by generateQuestion
questionsFailure(body, msg) ==
    IF isRateLimitError(msg)
    THEN Response("questions", 429,
                  "Rate limit exceeded. Please wait a moment before trying again.",
                  "", body, EmptyObj)
    ELSE Response("questions", 500, msg, "", body, EmptyObj)

\* the route answers in its first turn, without a model request, when ...
questionsAtOnce(body, apiKey) ==
    \/ ~body.valid
    \/ lacksRequiredFields(body)
    \/ ~cleanTechnology(body).ok
    \/ ~apiKey                           \* makeGroqRequest throws first

\* ... with this response
questionsFirstTurn(body, apiKey) ==
    IF ~body.valid
    THEN Response("questions", 500, "Unexpected token in JSON", "", body,
                  EmptyObj)
    ELSE IF lacksRequiredFields(body)
    THEN Response("questions", 400,
                  "Technology, difficulty, and question type are required",
                  "", body, EmptyObj)
    ELSE IF ~cleanTechnology(body).ok
    THEN Response("questions", 500, cleanTechnology(body).err, "", body,
                  EmptyObj)
    ELSE questionsFailure(body, "GROQ API key is not configured")

\* the route's response once the model request has settled with reply r
questionsSettled(body, r) ==
    LET question == generateReply(r, body.questionType) IN
    IF question.ok
    THEN Response("questions", 200, "", "", body, question.val)
    ELSE questionsFailure(body, question.err)

(***************************************************************************)
(* Inputs: the request bodies a client may post and the replies the remote *)
(* service may give.                                                       *)
(***************************************************************************)
Body(q, r, topics, qt, co, ex) ==
    [valid |-> TRUE, question |-> q, response |-> r, expectedTopics |-> topics,
     questionType |-> qt, correctOption |-> co, explanation |-> ex]

Topics12 == JArr(<<"t1", "t2">>)

Answers ==
    {<<"A">>, <<"a">>, <<"B">>, <<"b">>, <<"C">>, <<"c">>, <<"D">>, <<"d">>,
     <<"E">>, <<"A", "B">>}

Labels == {<<"A">>, <<"B">>, <<"C">>, <<"D">>}

McqTypes == {MCQ, <<"M", "C", "Q">>, <<"M", "c", "q">>}

FreeText == <<"t", "e", "x", "t">>

McqBodies ==
    \* every answer against every label
    {Body("Q", r, Topics12, MCQ, co, "why") : r \in Answers, co \in Labels}
    \* the other spellings of the type, a lower-case or absent correctOption,
    \* other topics, no explanation
    \cup {Body("Q", r, Topics12, qt, co, "why") :
            r \in {<<"A">>, <<"b">>}, qt \in McqTypes,
            co \in {<<"A">>, <<"b">>, <<>>}}
    \cup {Body("Q", r, topics, MCQ, <<"B">>, "") :
            r \in {<<"B">>, <<"C">>},
            topics \in {JArr(<<>>), JArr(<<"t1">>), JStr("t1")}}

ModelBodies ==
    {Body("Q", FreeText, topics, qt, <<>>, "") :
        topics \in {Topics12, JStr("t1")}, qt \in {SUBJECTIVE, CODING}}

BadBodies ==
    {NoBody}
    \cup {Body(q, r, topics, qt, <<"A">>, "") :
            q \in {"", "Q"}, r \in {<<>>, <<"A">>},
            topics \in {JNull, Topics12}, qt \in {<<>>, MCQ, SUBJECTIVE}}

Bodies == McqBodies \cup ModelBodies \cup BadBodies

Statuses == {200, 201, 400, 401, 429, 500, 503}

ScoreValues ==
    {JNum(-5, 1), JNum(0, 1), JNum(7, 1), JNum(17, 2), JNum(10, 1),
     JNum(21, 2), JNum(85, 1), JNum(100, 1), JNum(150, 1), JInf(1), JInf(-1),
     JStr("8"), JNull}

TopicValues == {JArr(<<"t1">>), JArr(<<>>), JStr("t1"), JNull}

Obj(score, covered, missing) ==
    [score |-> score, feedback |-> JStr("ok"), coveredTopics |-> covered,
     missingTopics |-> missing]

\* obj without field f
without(obj, f) == [g \in DOMAIN obj \ {f} |-> obj[g]]

BaseObj == Obj(JNum(7, 1), JArr(<<"t1">>), JArr(<<"t2">>))

Objects ==
    {Obj(sc, JArr(<<"t1">>), JArr(<<"t2">>)) : sc \in ScoreValues}
    \cup {Obj(JNum(7, 1), cov, mis) : cov \in TopicValues, mis \in TopicValues}
    \cup {without(BaseObj, f) : f \in AnalysisFields}
    \cup {without(without(BaseObj, "coveredTopics"), "missingTopics")}
    \cup {[g \in DOMAIN BaseObj \cup {"improvement"} |->
             IF g = "improvement" THEN JStr("more") ELSE BaseObj[g]]}

Contents ==
    {[json |-> k, obj |-> EmptyObj] : k \in {"notstring", "none", "broken"}}
    \cup {[json |-> "object", obj |-> o] : o \in Objects}
    \cup {[json |-> "repairable", obj |-> o] :
            o \in {BaseObj, without(BaseObj, "missingTopics"),
                   Obj(JNum(85, 1), JNull, JArr(<<"t2">>))}}

NoContent == [json |-> "none", obj |-> EmptyObj]

Reply(net, status, envelope, content) ==
    [net |-> net, status |-> status, envelope |-> envelope, content |-> content]

Replies ==
    {Reply("fail", 0, "notjson", NoContent)}
    \cup {Reply("http", st, "notjson", NoContent) : st \in Statuses}
    \cup {Reply("http", 200, "nocontent", NoContent)}
    \cup {Reply("http", 200, "content", c) : c \in Contents}

\* bodies posted to the questions route
QBody(technology, difficulty, questionNumber, questionType) ==
    [valid |-> TRUE, technology |-> technology, difficulty |-> difficulty,
     questionNumber |-> questionNumber, questionType |-> questionType]

\* the body is one of the questions route
isQuestionBody(body) == "technology" \in DOMAIN body

JS == <<"j", "s">>

GENERAL == <<"o", "r", "a", "l">>

Difficulties == {EASY, MEDIUM, HARD}

QuestionTypes == {MCQ, SUBJECTIVE, CODING, GENERAL}

\* the requests for a question of type qt
QuestionBodies(qt) ==
    {QBody(JS, d, 1, qt) : d \in Difficulties}
    \cup {QBody(JS, <<" ">> \o EASY, 2, toUpperCase(qt))}

BadQuestionBodies ==
    {[QBody(JS, EASY, 1, MCQ) EXCEPT !.valid = FALSE],
     QBody(<<>>, EASY, 1, MCQ), QBody(JS, <<>>, 1, MCQ),
     QBody(JS, EASY, 1, <<>>), QBody(<<"%">>, EASY, 1, MCQ)}

\* a payload that passes the validator for every question type (the items
\* of an array of a question payload are JSON values)
FullQuestion ==
    [question |-> JStr("Q"), expectedTopics |-> JArr(<<JStr("t1")>>),
     difficulty |-> JNum(1, 1),
     modelAnswer |->
        JObj([options |-> JObj([l \in RequiredOptions |-> JStr("x")]),
              correctOption |-> JStr("A"), explanation |-> JStr("why"),
              isCode |-> JBool(TRUE), content |-> JStr("text")])]

QuestionReplies ==
    {Reply("fail", 0, "notjson", NoContent),
     Reply("http", 429, "notjson", NoContent),
     Reply("http", 503, "notjson", NoContent),
     Reply("http", 200, "notjson", NoContent),
     Reply("http", 200, "nocontent", NoContent),
     Reply("http", 200, "content", NoContent),
     Reply("http", 200, "content", [json |-> "broken", obj |-> EmptyObj]),
     Reply("http", 200, "content", [json |-> "object", obj |-> FullQuestion]),
     Reply("http", 200, "content",
           [json |-> "object", obj |-> without(FullQuestion, "modelAnswer")]),
     Reply("http", 200, "content",
           [json |-> "object",
            obj |-> [FullQuestion EXCEPT !.modelAnswer = JStr("text")]])}

(***************************************************************************)
(* Workloads.  A behaviour serves one of them, chosen at the start:        *)
(*   timing     few bodies and replies, MaxCalls model requests from two   *)
(*              concurrent callers;                                        *)
(*   mcq        every multiple-choice and every malformed body;            *)
(*   scoring    every remote reply to a free-text scoring request;         *)
(*   generation every kind of remote reply to a question request and to a  *)
(*              free-text scoring request;                                 *)
(*   refusals   every malformed body of the questions route;               *)
(*   fields     bodies of both routes that lack one required field, and    *)
(*              model requests from two concurrent callers;                *)
(*   pacing     MaxCalls question requests from two concurrent callers;    *)
(*   prompts    one per question type: the question requests of that type  *)
(*              at every difficulty.                                       *)
(***************************************************************************)
ModelBody == Body("Q", FreeText, Topics12, SUBJECTIVE, <<>>, "")

TimingWorkload ==
    [bodies |-> {ModelBody,
                 Body("Q", <<"a">>, Topics12, MCQ, <<"A">>, "why"),
                 Body("Q", <<"B">>, Topics12, <<"M", "C", "Q">>, <<"A">>, "why"),
                 Body("Q", <<"A">>, Topics12, MCQ, <<>>, "")},
     replies |-> {Reply("http", 200, "content",
                        [json |-> "object", obj |-> BaseObj]),
                  Reply("http", 429, "notjson", NoContent)},
     calls |-> MaxCalls]

McqWorkload ==
    [bodies |-> McqBodies \cup BadBodies, replies |-> {}, calls |-> 0]

ScoringWorkload ==
    [bodies |-> ModelBodies, replies |-> Replies, calls |-> MaxScoredCalls]

GenerationWorkload ==
    [bodies |-> {QBody(JS, EASY, 1, MCQ), ModelBody},
     replies |-> QuestionReplies, calls |-> MaxScoredCalls]

PromptsWorkload(qt) ==
    [bodies |-> QuestionBodies(qt),
     replies |-> {Reply("http", 200, "content",
                        [json |-> "object", obj |-> FullQuestion])},
     calls |-> MaxScoredCalls]

RefusalsWorkload == [bodies |-> BadQuestionBodies, replies |-> {}, calls |-> 0]

PacingWorkload ==
    [bodies |-> {QBody(JS, MEDIUM, 1, SUBJECTIVE)},
     replies |-> {Reply("http", 200, "content",
                        [json |-> "object", obj |-> FullQuestion]),
                  Reply("http", 429, "notjson", NoContent)},
     calls |-> MaxCalls]

\* bodies that lack one required field each, and a complete body for each
\* route
LackingBodies ==
    {Body("", FreeText, Topics12, SUBJECTIVE, <<>>, ""),
     Body("Q", <<>>, Topics12, SUBJECTIVE, <<>>, ""),
     Body("Q", FreeText, JNull, SUBJECTIVE, <<>>, ""),
     Body("Q", FreeText, Topics12, <<>>, <<>>, ""),
     Body("Q", <<"A">>, Topics12, <<"M", "c", "q">>, <<>>, "why"),
     QBody(<<>>, EASY, 1, CODING), QBody(JS, <<>>, 1, CODING),
     QBody(JS, EASY, 1, <<>>)}

FieldsWorkload ==
    [bodies |-> LackingBodies \cup {ModelBody, QBody(JS, EASY, 1, CODING)},
     replies |-> {Reply("http", 200, "content",
                        [json |-> "object", obj |-> BaseObj]),
                  Reply("http", 200, "content",
                        [json |-> "object", obj |-> FullQuestion])},
     calls |-> MaxScoredCalls]

Scenarios == {"timing", "mcq", "scoring", "refusals", "fields"}

QuestionScenarios ==
    {"generation", "refusals", "pacing", "mcq prompts", "subjective prompts",
     "coding prompts", "general prompts"}

Workload(name) ==
    CASE name = "timing" -> TimingWorkload
      [] name = "mcq" -> McqWorkload
      [] name = "scoring" -> ScoringWorkload
      [] name = "generation" -> GenerationWorkload
      [] name = "refusals" -> RefusalsWorkload
      [] name = "fields" -> FieldsWorkload
      [] name = "pacing" -> PacingWorkload
      [] name = "mcq prompts" -> PromptsWorkload(MCQ)
      [] name = "subjective prompts" -> PromptsWorkload(SUBJECTIVE)
      [] name = "coding prompts" -> PromptsWorkload(CODING)
      [] name = "general prompts" -> PromptsWorkload(GENERAL)

(***************************************************************************)
(* The state machine.                                                      *)
(*   pc[c] = "idle"          no model request of caller c is under way     *)
(*           "sleeping"      suspended in waitForRateLimit's sleep         *)
(*           "slotReturned"  waitForRateLimit has returned; the            *)
(*                           continuation that calls fetch is a pending    *)
(*                           microtask of the same turn                    *)
(*           "fetching"      the request is dispatched, the reply awaited  *)
(***************************************************************************)
NoResponse == Response("none", 0, "", "", NoBody, EmptyObj)

NoReply == Reply("none", 0, "notjson", NoContent)

\* no function is being looked at on its own
NoInput == [fn |-> "none"]

NoResult == [fn |-> "none"]

\* the module state when the process has loaded
AtLoad ==
    /\ clock = StartClock
    /\ lastRequestTime = 0
    /\ pc = [c \in Callers |-> "idle"]
    /\ wakeAt = [c \in Callers |-> 0]
    /\ seenLast = [c \in Callers |-> 0]
    /\ job = [c \in Callers |-> NoBody]
    /\ slotTimes = <<>>
    /\ dispatchTimes = <<>>
    /\ requests = [c \in Callers |-> 0]
    /\ overlap = FALSE
    /\ settled = NoReply
    /\ out = NoResponse

\* no interview page is open
NoPage ==
    /\ search = <<>>
    /\ page = <<>>
    /\ pending = <<>>
    /\ location = "/"
    /\ localStorage = <<>>
    /\ elapsed = 0
    /\ sent = <<>>
    /\ failed = FALSE

InitServing(workloads) ==
    /\ GROQ_API_KEY \in BOOLEAN
    /\ scenario \in workloads
    /\ AtLoad
    /\ NoPage
    /\ applied = NoInput
    /\ returned = NoResult

Init == InitServing(Scenarios)

\* the process serving requests for questions
QuestionInit == InitServing(QuestionScenarios)

\* a microtask is pending: the turn is not over, nothing else runs and no
\* time passes
Urgent == \E c \in Callers : pc[c] = "slotReturned"

\* calls that have entered waitForRateLimit so far
Entered == Len(slotTimes) + Cardinality({c \in Callers : pc[c] = "sleeping"})

\* waitForRateLimit, from its call to its first suspension or its return
waitForRateLimit(c) ==
    LET now == clock IN
    /\ seenLast' = [seenLast EXCEPT ![c] = lastRequestTime]
    /\ overlap' = (overlap \/ \E d \in Callers \ {c} : pc[d] = "sleeping")
    /\ IF mustWait(now, lastRequestTime)
       THEN /\ wakeAt' = [wakeAt EXCEPT ![c] = clock + waitTime(now, lastRequestTime)]
            /\ pc' = [pc EXCEPT ![c] = "sleeping"]
            /\ UNCHANGED <<lastRequestTime, slotTimes>>
       ELSE /\ lastRequestTime' = clock
            /\ slotTimes' = Append(slotTimes, clock)
            /\ pc' = [pc EXCEPT ![c] = "slotReturned"]
            /\ UNCHANGED wakeAt

\* POST /api/analyze with `body`, up to the handler's first suspension
AnalyzePOST(c, body) ==
    /\ ~isQuestionBody(body)
    /\ pc[c] = "idle"
    /\ ~Urgent
    /\ IF answersAtOnce(body, GROQ_API_KEY)
       THEN /\ out' = analyzeAtOnce(body, GROQ_API_KEY)
            /\ settled' = NoReply
            /\ UNCHANGED <<lastRequestTime, pc, wakeAt, seenLast, job,
                           slotTimes, overlap>>
       ELSE /\ Entered < Workload(scenario).calls
            \* the model's clock must be able to reach the timer's due time
            /\ clock + 2 * MIN_REQUEST_INTERVAL <= MaxClock
            /\ waitForRateLimit(c)
            /\ job' = [job EXCEPT ![c] = body]
            /\ UNCHANGED <<out, settled>>
    /\ UNCHANGED <<GROQ_API_KEY, clock, dispatchTimes, requests, scenario,
                   applied, returned, browser>>

\* POST /api/questions with `body`, up to the handler's first suspension
QuestionsPOST(c, body) ==
    /\ isQuestionBody(body)
    /\ pc[c] = "idle"
    /\ ~Urgent
    /\ IF questionsAtOnce(body, GROQ_API_KEY)
       THEN /\ out' = questionsFirstTurn(body, GROQ_API_KEY)
            /\ settled' = NoReply
            /\ UNCHANGED <<lastRequestTime, pc, wakeAt, seenLast, job,
                           slotTimes, overlap>>
       ELSE /\ Entered < Workload(scenario).calls
            /\ clock + 2 * MIN_REQUEST_INTERVAL <= MaxClock
            /\ waitForRateLimit(c)
            /\ job' = [job EXCEPT ![c] = body]
            /\ UNCHANGED <<out, settled>>
    /\ UNCHANGED <<GROQ_API_KEY, clock, dispatchTimes, requests, scenario,
                   applied, returned, browser>>

\* the sleep timer of caller c fires: waitForRateLimit stamps the time and
\* returns
TimerFires(c) ==
    /\ pc[c] = "sleeping"
    /\ ~Urgent
    /\ clock >= wakeAt[c]
    /\ lastRequestTime' = clock
    /\ slotTimes' = Append(slotTimes, clock)
    /\ pc' = [pc EXCEPT ![c] = "slotReturned"]
    /\ UNCHANGED <<GROQ_API_KEY, clock, wakeAt, seenLast, job, dispatchTimes,
                   requests, overlap, settled, out, scenario, applied, returned,
                   browser>>

\* makeGroqRequest resumes after `await waitForRateLimit()` and calls fetch
Dispatch(c) ==
    /\ pc[c] = "slotReturned"
    /\ dispatchTimes' = Append(dispatchTimes, clock)
    /\ requests' = [requests EXCEPT ![c] = @ + 1]
    /\ pc' = [pc EXCEPT ![c] = "fetching"]
    /\ UNCHANGED <<GROQ_API_KEY, clock, lastRequestTime, wakeAt, seenLast, job,
                   slotTimes, overlap, settled, out, scenario, applied, returned,
                   browser>>

\* mutant: a request that failed is made again
afterReplyRetry(r) == IF makeGroqReply(r).ok THEN "idle" ELSE "slotReturned"

\* where the invocation stands once its request has settled with reply r:
\* whatever the reply, makeGroqRequest and its caller return or rethrow, and
\* nothing loops back to the request
afterReply(r) == "idle"

\* the fetch of caller c settles with reply r; the handler runs to its end
Settle(c, r) ==
    /\ pc[c] = "fetching"
    /\ ~Urgent
    /\ settled' = r
    /\ out' = IF isQuestionBody(job[c])
              THEN questionsSettled(job[c], r)
              ELSE analyzeSettled(job[c], r)
    /\ pc' = [pc EXCEPT ![c] = afterReply(r)]
    /\ requests' = [requests EXCEPT ![c] = IF afterReply(r) = "idle" THEN 0 ELSE @]
    /\ job' = [job EXCEPT ![c] = IF afterReply(r) = "idle" THEN NoBody ELSE @]
    /\ UNCHANGED <<GROQ_API_KEY, clock, lastRequestTime, wakeAt, seenLast,
                   slotTimes, dispatchTimes, overlap, scenario, applied, returned,
                   browser>>

\* time passes between two turns
Tick(d) ==
    /\ ~Urgent
    /\ clock + d <= MaxClock
    /\ clock' = clock + d
    /\ UNCHANGED <<GROQ_API_KEY, lastRequestTime, pc, wakeAt, seenLast, job,
                   slotTimes, dispatchTimes, requests, overlap, settled, out,
                   scenario, applied, returned,
                   browser>>

Next ==
    \/ \E c \in Callers, body \in Workload(scenario).bodies : AnalyzePOST(c, body)
    \/ \E c \in Callers, body \in Workload(scenario).bodies : QuestionsPOST(c, body)
    \/ \E c \in Callers : TimerFires(c)
    \/ \E c \in Callers : Dispatch(c)
    \/ \E c \in Callers, r \in Workload(scenario).replies : Settle(c, r)
    \/ \E d \in TickSteps : Tick(d)

Spec == Init /\ [][Next]_vars

QuestionSpec == QuestionInit /\ [][Next]_vars

\* the workloads of the limiter: model requests of both routes from two
\* concurrent callers, few bodies and replies
LimiterInit == Init /\ scenario \in {"timing", "fields"}

\* the scheduling the runtime guarantees: time passes, a due timer fires, a
\* pending microtask runs
FairSpec ==
    /\ LimiterInit
    /\ [][Next]_vars
    /\ WF_vars(\E d \in TickSteps : Tick(d))
    /\ \A c \in Callers : WF_vars(TimerFires(c))
    /\ \A c \in Callers : WF_vars(Dispatch(c))

(***************************************************************************)
(* The functions of the pipeline taken on their own: one of them is        *)
(* applied to arguments chosen at the start.                               *)
(***************************************************************************)
\* the object with the members of `members` that are not undefined
defined(members) ==
    [f \in {g \in DOMAIN members : members[g].t # "undefined"} |-> members[f]]

McqAnswer(options, correctOption, explanation) ==
    JObj(defined([options |-> options, correctOption |-> correctOption,
                  explanation |-> explanation]))

TextAnswer(isCode, content) ==
    JObj(defined([isCode |-> isCode, content |-> content]))

Payload(question, expectedTopics, difficulty, modelAnswer) ==
    defined([question |-> question, expectedTopics |-> expectedTopics,
             difficulty |-> difficulty, modelAnswer |-> modelAnswer])

OptionLabels ==
    {RequiredOptions, {}, {"A", "B"}, RequiredOptions \cup {"E"}}
    \cup {RequiredOptions \ {l} : l \in RequiredOptions}

OptionValues ==
    {JObj([l \in labels |-> JStr("x")]) : labels \in OptionLabels}
    \cup {JUndefined, JNull, JStr("x"), JArr(<<JStr("x")>>)}

CorrectOptionValues ==
    {JStr("A"), JStr("D"), JStr("E"), JStr("a"), JStr(""), JNull, JUndefined,
     JNum(1, 1), JArr(<<JStr("A")>>)}

ExplanationValues == {JStr("why"), JStr(""), JUndefined, JNum(1, 1)}

StringTopics == JArr(<<JStr("t1"), JStr("t2")>>)

McqPayloads ==
    {Payload(JStr("Q"), StringTopics, JNum(1, 1), McqAnswer(o, c, e)) :
        o \in OptionValues, c \in CorrectOptionValues, e \in ExplanationValues}

TextPayloads ==
    {Payload(JStr("Q"), StringTopics, JNum(1, 1), TextAnswer(isCode, content)) :
        isCode \in {JBool(TRUE), JBool(FALSE), JUndefined},
        content \in {JStr("text"), JNum(1, 1), JUndefined}}

ShapePayloads ==
    {Payload(q, topics, d, ma) :
        q \in {JStr("Q"), JUndefined},
        topics \in {StringTopics, JArr(<<>>), JArr(<<JStr("t1"), JNum(1, 1)>>),
                    JStr("t1"), JNull, JUndefined},
        d \in {JNum(2, 1), JStr("2"), JNull, JUndefined},
        ma \in {FullQuestion.modelAnswer, JNull, JStr("text"), JUndefined}}

Payloads == McqPayloads \cup TextPayloads \cup ShapePayloads

(***************************************************************************)
(* Completion texts for the response parser: JSON objects written out with *)
(* a chosen white space between their tokens, defective variants of them,  *)
(* and the prose a model may put around them.                              *)
(***************************************************************************)
NameQuestion == <<"q", "u", "e", "s", "t", "i", "o", "n">>

NameExpectedTopics ==
    <<"e", "x", "p", "e", "c", "t", "e", "d", "T", "o", "p", "i", "c", "s">>

NameDifficulty == <<"d", "i", "f", "f", "i", "c", "u", "l", "t", "y">>

NameModelAnswer == <<"m", "o", "d", "e", "l", "A", "n", "s", "w", "e", "r">>

NameContent == <<"c", "o", "n", "t", "e", "n", "t">>

NameScore == <<"s", "c", "o", "r", "e">>

NameFeedback == <<"f", "e", "e", "d", "b", "a", "c", "k">>

NameCoveredTopics ==
    <<"c", "o", "v", "e", "r", "e", "d", "T", "o", "p", "i", "c", "s">>

NameMissingTopics ==
    <<"m", "i", "s", "s", "i", "n", "g", "T", "o", "p", "i", "c", "s">>

Quoted(content) == <<"\"">> \o content \o <<"\"">>

Member(name, value) == Quoted(name) \o <<":">> \o value

\* a member whose name is not quoted
BareMember(name, value) == name \o <<":">> \o value

RECURSIVE Joined(_, _)
Joined(texts, gap) ==
    IF Len(texts) <= 1 THEN (IF texts = <<>> THEN <<>> ELSE texts[1])
    ELSE texts[1] \o <<",">> \o gap \o Joined(Tail(texts), gap)

\* the object with the given member texts, `gap` between its tokens
ObjectText(members, gap) ==
    <<"{">> \o gap \o Joined(members, gap) \o gap \o <<"}">>

\* the same with a comma after the last member
TrailingCommaText(members, gap) ==
    <<"{">> \o gap \o Joined(members, gap) \o <<",">> \o gap \o <<"}">>

TopicsText == <<"[">> \o Quoted(<<"t", "1">>) \o <<"]">>

\* the members of a generated question whose question string is q
QuestionMembers(q) ==
    <<Member(NameQuestion, Quoted(q)),
      Member(NameExpectedTopics, TopicsText),
      Member(NameDifficulty, <<"1">>),
      Member(NameModelAnswer,
             ObjectText(<<Member(NameContent, Quoted(<<"a">>))>>, <<>>))>>

BareQuestionMembers ==
    <<BareMember(NameQuestion, Quoted(<<"Q">>)),
      BareMember(NameExpectedTopics, TopicsText),
      BareMember(NameDifficulty, <<"1">>),
      BareMember(NameModelAnswer, <<"{", "}">>)>>

SingleQuotedMembers ==
    <<Member(NameQuestion, <<"'", "Q", "'">>),
      Member(NameExpectedTopics, TopicsText),
      Member(NameDifficulty, <<"1">>),
      Member(NameModelAnswer, <<"{", "}">>)>>

\* the members of a scoring
AnalysisMembers ==
    <<Member(NameScore, <<"7">>),
      Member(NameFeedback, Quoted(<<"o", "k">>)),
      Member(NameCoveredTopics, TopicsText),
      Member(NameMissingTopics, <<"[", "]">>)>>

Gaps == {<<>>, <<" ">>, <<"\n">>, <<"\n", "\t">>, <<"\r", "\n">>}

\* string contents, escapes written out: Q, a}b, a,b:c, a\nb, a\"b
StringContents ==
    {<<"Q">>, <<"a", "}", "b">>, <<"a", ",", "b", ":", "c">>,
     <<"a", "\\", "n", "b">>, <<"a", "\\", "\"", "b">>}

\* texts that are JSON objects
ValidTexts ==
    {ObjectText(QuestionMembers(q), gap) : q \in StringContents, gap \in Gaps}
    \cup {ObjectText(AnalysisMembers, gap) : gap \in Gaps}
    \cup {ObjectText(SubSeq(QuestionMembers(<<"Q">>), 1, 3), gap) : gap \in Gaps}
    \cup {<<"{", "}">>}

\* texts in braces that are not JSON
DefectiveTexts ==
    {TrailingCommaText(QuestionMembers(<<"Q">>), gap) : gap \in {<<>>, <<"\n">>}}
    \cup {ObjectText(BareQuestionMembers, gap) : gap \in {<<>>, <<" ">>}}
    \cup {ObjectText(SingleQuotedMembers, <<>>),
          ObjectText(QuestionMembers(<<"a", "\\", "q", "b">>), <<>>),
          <<"{", "ZWSP">> \o Joined(QuestionMembers(<<"Q">>), <<>>) \o <<"}">>,
          ObjectText(<<Quoted(NameQuestion)>>, <<>>),
          ObjectText(<<BareMember(NameQuestion, Quoted(<<"Q">>))>>, <<>>)}

\* texts without a "{" that a "}" follows
BracelessTexts ==
    {<<"n", "o">>, <<"{">>, <<"}">>, <<"}", "{">>, <<"}", " ", "{", "a">>,
     <<"[", "1", "]">>}

Leads == {<<>>, <<"H", "i", ":", " ">>, <<"{", "x", " ">>, <<"x", "}", " ">>, <<"\n">>}

Trails == {<<>>, <<" ", "o", "k">>, <<" ", "}">>, <<" ", "{">>, <<"\n">>}

\* a completion text: `core` with prose before and after it
ParserInputs ==
    {[fn |-> "parse", lead |-> lead, core |-> core, trail |-> trail,
      fields |-> fields] :
        lead \in Leads, core \in ValidTexts \cup DefectiveTexts \cup BracelessTexts,
        trail \in Trails, fields \in {QuestionFields, AnalysisFields}}

\* a candidate, as the match gives it: from a "{" to a "}"
RepairInputs ==
    {[fn |-> "repair", lead |-> <<>>, core |-> core, trail |-> <<>>,
      fields |-> {}] : core \in ValidTexts \cup DefectiveTexts}

textOf(input) == input.lead \o input.core \o input.trail

ValidatorInputs ==
    {[fn |-> fn, payload |-> p, questionType |-> qt] :
        fn \in {"validate", "generate"}, p \in Payloads,
        qt \in QuestionTypes \cup {<<"M", "C", "Q">>}}

Inputs == ValidatorInputs \cup ParserInputs \cup RepairInputs

PureInit ==
    /\ GROQ_API_KEY = TRUE
    /\ scenario = "none"
    /\ AtLoad
    /\ NoPage
    /\ applied \in Inputs
    /\ returned = NoResult

\* the variables of the serving process
serving == <<GROQ_API_KEY, clock, lastRequestTime, pc, wakeAt, seenLast, job,
             slotTimes, dispatchTimes, requests, overlap, settled, out,
             scenario>>

\* what function fn returned (ok, val) or threw (~ok, err)
Returned(fn, res) == [fn |-> fn, ok |-> res.ok, err |-> res.err, val |-> res.val]

\* validateQuestionResponse(payload, questionType)
Validate ==
    /\ applied.fn = "validate"
    /\ returned = NoResult
    /\ returned' = Returned("validate",
                            validateQuestionResponse(applied.payload,
                                                     applied.questionType))
    /\ UNCHANGED <<serving, applied, browser>>

\* generateQuestion, the remote service having replied with the payload as
\* the completion's JSON
Generate ==
    /\ applied.fn = "generate"
    /\ returned = NoResult
    /\ returned' = Returned("generate",
                            generateReply(Reply("http", 200, "content",
                                                [json |-> "object",
                                                 obj |-> applied.payload]),
                                          applied.questionType))
    /\ UNCHANGED <<serving, applied, browser>>

\* parseJsonResponse(response, requiredFields) on a completion text
Parse ==
    /\ applied.fn = "parse"
    /\ returned = NoResult
    /\ returned' = [fn |-> "parse"] @@ parseJsonText(textOf(applied), applied.fields)
    /\ UNCHANGED <<serving, applied, browser>>

\* what the repair pass gave, and what JSON.parse gives on it
Repaired(cleaned) ==
    [fn |-> "repair", text |-> cleaned, parsed |-> JSONparse(cleaned)]

\* the repair pass on a candidate, and JSON.parse on what it gives
Repair ==
    /\ applied.fn = "repair"
    /\ returned = NoResult
    /\ returned' = Repaired(repair(textOf(applied)))
    /\ UNCHANGED <<serving, applied, browser>>

PureNext == Validate \/ Generate \/ Parse \/ Repair

PureSpec == PureInit /\ [][PureNext]_vars

(***************************************************************************)
(* The interview page (src/src/app/interview/page.tsx), a React component. *)
(* A handler sees the state of the render it was created in, also after an *)
(* await; its state updates are applied to the state of the moment.  The   *)
(* updates of one turn are applied together, and the page is rendered      *)
(* again before the next event is handled.  Updates of a page that has     *)
(* been left are dropped; what else the handler does still happens.        *)
(***************************************************************************)
\* useState(600): the countdown when the page opens
INITIAL_TIME_LEFT == 600

MINUTES_PER_QUESTION == 2

\* the period of the countdown's interval, in milliseconds
TIMER_INTERVAL == 1000

\* the numQuestions parameters of the model run from 1 to this
MaxQuestions == 3

\* the amount by which the time of the page advances in one step
ElapseStep == TIMER_INTERVAL \div 2

\* Number(numQuestions) || 5
TOTAL_QUESTIONS(numQuestions) == IF numQuestions = 0 THEN 5 ELSE numQuestions

TOTAL_TIME_MINUTES(numQuestions) ==
    TOTAL_QUESTIONS(numQuestions) * MINUTES_PER_QUESTION

TOTAL_TIME_SECONDS(numQuestions) == TOTAL_TIME_MINUTES(numQuestions) * 60

\* currentQuestion === null
NoQuestion == [position |-> 0, questionNumber |-> 0, questionType |-> <<>>]

\* no analysis in an answer
NoAnalysis == [score |-> -1]

\* the analysis the scoring endpoint gives
SomeAnalysis == [score |-> 7]

\* the state of the component at its first render
FirstRender ==
    [currentQuestionNumber |-> 1, currentQuestion |-> NoQuestion,
     answers |-> <<>>, timeLeft |-> INITIAL_TIME_LEFT, answer |-> <<>>,
     loading |-> FALSE, analyzing |-> FALSE, error |-> FALSE,
     isGeneratingQuestion |-> FALSE, initialLoadRef |-> FALSE]

\* no 'interviewAnswers' entry
NoItem == [set |-> FALSE, answers |-> <<>>]

\* the entry holding `answers`
Item(answers) == [set |-> TRUE, answers |-> answers]

\* types[(currentQuestionNumber - 1) % types.length]
typeAt(types, currentQuestionNumber) ==
    types[((currentQuestionNumber - 1) % Len(types)) + 1]

\* what handleNext and the functions it calls read of the render they were
\* created in
Closure(p) ==
    [currentQuestionNumber |-> p.currentQuestionNumber,
     currentQuestion |-> p.currentQuestion, answers |-> p.answers,
     answer |-> p.answer, isGeneratingQuestion |-> p.isGeneratingQuestion]

\* the request for a question, the position-th the page issues
QuestionRequest(position, questionNumber, questionType) ==
    [kind |-> "questions", position |-> position,
     questionNumber |-> questionNumber, questionType |-> questionType,
     render |-> Closure(FirstRender)]

\* the request for the analysis of an answer, issued by the handleNext of
\* render r
AnalyzeRequest(r, questionType) ==
    [kind |-> "analyze", position |-> r.currentQuestion.position,
     questionNumber |-> r.currentQuestionNumber, questionType |-> questionType,
     render |-> Closure(r)]

\* the question the endpoint gives to a request
questionFor(req) ==
    [position |-> req.position, questionNumber |-> req.questionNumber,
     questionType |-> req.questionType]

\* what a handler did: the state it leaves, the requests it issued, the
\* 'interviewAnswers' entry it wrote if any, the route it pushed if any
Done(p, issued, stored, pushed) ==
    [page |-> p, issued |-> issued, stored |-> stored, pushed |-> pushed]

\* generateNextQuestion of render r, up to its fetch, on the state p
generateNextQuestion(r, p, types, position) ==
    IF r.isGeneratingQuestion THEN Done(p, <<>>, NoItem, "")
    ELSE Done([p EXCEPT !.isGeneratingQuestion = TRUE, !.loading = TRUE,
                        !.error = FALSE],
              <<QuestionRequest(position, r.currentQuestionNumber,
                                typeAt(types, r.currentQuestionNumber))>>,
              NoItem, "")

\* the question generation effect, at the first render
firstEffect(r, types) ==
    IF r.initialLoadRef THEN Done(r, <<>>, NoItem, "")
    ELSE IF r.currentQuestion = NoQuestion /\ ~r.isGeneratingQuestion
    THEN generateNextQuestion(r, [r EXCEPT !.initialLoadRef = TRUE], types, 1)
    ELSE Done([r EXCEPT !.initialLoadRef = TRUE], <<>>, NoItem, "")

\* generateNextQuestion after its fetch has settled
questionSettled(p, req, reply) ==
    LET shown == IF reply = "ok"
                 THEN [p EXCEPT !.currentQuestion = questionFor(req),
                                !.error = FALSE]
                 ELSE [p EXCEPT !.error = TRUE, !.currentQuestion = NoQuestion]
    IN  [shown EXCEPT !.loading = FALSE, !.isGeneratingQuestion = FALSE]

\* what the component renders
screen(p) ==
    IF p.loading THEN "loading"
    ELSE IF p.error THEN "error"
    ELSE IF p.currentQuestion = NoQuestion THEN "nothing"
    ELSE "question"

\* the button is rendered and not disabled
buttonEnabled(p) ==
    /\ screen(p) = "question"
    /\ ~(p.analyzing \/ trim(p.answer) = <<>>)

\* the early return of handleNext
handleNextReturns(r) ==
    r.currentQuestion = NoQuestion \/ r.analyzing \/ r.isGeneratingQuestion

\* mutant: the next question is asked for while the answer is analysed
handleNextAtOnce(r, types, position) ==
    Done([r EXCEPT !.analyzing = TRUE],
         <<AnalyzeRequest(r, typeAt(types, r.currentQuestionNumber)),
           QuestionRequest(position, r.currentQuestionNumber + 1,
                           typeAt(types, r.currentQuestionNumber + 1))>>,
         NoItem, "")

\* handleNext of render r, up to the fetch of analyzeAnswer
handleNext(r, types, position) ==
    Done([r EXCEPT !.analyzing = TRUE],
         <<AnalyzeRequest(r, typeAt(types, r.currentQuestionNumber))>>,
         NoItem, "")

\* mutant: the interview ends one question early
isLastQuestionEarly(currentQuestionNumber, numQuestions) ==
    currentQuestionNumber + 1 >= TOTAL_QUESTIONS(numQuestions)

\* currentQuestionNumber === TOTAL_QUESTIONS
isLastQuestion(currentQuestionNumber, numQuestions) ==
    currentQuestionNumber = TOTAL_QUESTIONS(numQuestions)

\* [...answers, newAnswer]
withAnswer(answers, answer, analysis, question) ==
    Append(answers,
           [answer |-> answer, analysis |-> analysis, question |-> question])

\* the state after setAnswers(newAnswers) and setAnswer('')
answered(p, newAnswers) == [p EXCEPT !.answers = newAnswers, !.answer = <<>>]

\* the state after setCurrentQuestionNumber(prev => prev + 1) and
\* setCurrentQuestion(null)
advanced(p) ==
    [p EXCEPT !.currentQuestionNumber = @ + 1, !.currentQuestion = NoQuestion]

\* the finally block of handleNext
finished(done) ==
    [done EXCEPT !.page = [done.page EXCEPT !.analyzing = FALSE]]

\* handleNext of render r after analyzeAnswer has returned: the try block
\* from newAnswer on, newAnswers being [...answers, newAnswer]
handleNextScored(r, p, newAnswers, params, position) ==
    IF isLastQuestion(r.currentQuestionNumber, params.numQuestions)
    THEN finished(Done(answered(p, newAnswers), <<>>, Item(newAnswers),
                       "/results"))
    ELSE finished(generateNextQuestion(r, advanced(answered(p, newAnswers)),
                                       params.types, position))

\* mutant: the answer field is cleared though the analysis failed
handleNextFailedCleared(r, p) ==
    finished(Done([p EXCEPT !.answer = <<>>], <<>>, NoItem, ""))

\* handleNext of render r after analyzeAnswer has thrown
handleNextFailed(r, p) == finished(Done(p, <<>>, NoItem, ""))

\* handleNext of render r after the fetch of analyzeAnswer has settled
handleNextSettled(r, p, reply, params, position) ==
    IF reply = "ok"
    THEN handleNextScored(r, p,
                          withAnswer(r.answers, r.answer, SomeAnalysis,
                                     r.currentQuestion),
                          params, position)
    ELSE handleNextFailed(r, p)

\* the callback of the countdown's interval on the state p: the state it
\* leaves, the entry it writes, the route it pushes
timerFired(p) ==
    IF p.timeLeft <= 1
    THEN Done([p EXCEPT !.timeLeft = 0], <<>>,
              IF truthy(p.answer) /\ p.currentQuestion # NoQuestion
              THEN Item(withAnswer(p.answers, p.answer, NoAnalysis,
                                   p.currentQuestion))
              ELSE NoItem,
              "/results")
    ELSE Done([p EXCEPT !.timeLeft = @ - 1], <<>>, NoItem, "")

\* the values the countdown's effect depends on
timerDeps(p) == <<p.answers, p.answer, p.currentQuestion>>

\* the list `s` without its i-th item
removeAt(s, i) == SubSeq(s, 1, i - 1) \o SubSeq(s, i + 1, Len(s))

\* the page is open
Open == location = "/interview"

\* the page is open and its first effects have run
Running == Open /\ page.initialLoadRef

\* the search parameters of the model
TypeLists == {<<MCQ>>, <<MCQ, CODING>>}

Searches ==
    {[numQuestions |-> n, types |-> ts] : n \in 1..MaxQuestions,
                                          ts \in TypeLists}

\* what the candidate may have in the answer field
TypedAnswers == {<<>>, <<"A">>}

\* how a request of the page may end: with what it asked for, with an error
\* status or a network failure, with a body that is not what it asked for
PageReplies == {"ok", "failed", "invalid"}

PageInitOn(searches) ==
    /\ GROQ_API_KEY = TRUE
    /\ scenario = "none"
    /\ AtLoad
    /\ applied = NoInput
    /\ returned = NoResult
    /\ search \in searches
    /\ page = FirstRender
    /\ pending = <<>>
    /\ location = "/interview"
    /\ localStorage = NoItem
    /\ elapsed = 0
    /\ sent = <<>>
    /\ failed = FALSE

PageInit == PageInitOn(Searches)

\* the requests for a question among `issued`
RECURSIVE questionRequests(_)
questionRequests(issued) ==
    IF issued = <<>> THEN <<>>
    ELSE IF Head(issued).kind = "questions"
    THEN <<Head(issued)>> \o questionRequests(Tail(issued))
    ELSE questionRequests(Tail(issued))

\* a handler has run and left `done`, `rest` being the requests still in
\* flight
Handled(done, rest) ==
    /\ page' = IF Open THEN done.page ELSE page
    /\ pending' = rest \o done.issued
    /\ sent' = sent \o questionRequests(done.issued)
    /\ localStorage' = IF done.stored.set THEN done.stored ELSE localStorage
    /\ location' = IF done.pushed = "" THEN location ELSE done.pushed

\* the countdown's effect runs again, and sets a new interval, when a value
\* it depends on has changed
Rearmed(done) ==
    elapsed' = IF Open /\ done.pushed = ""
                  /\ timerDeps(done.page) = timerDeps(page)
               THEN elapsed ELSE 0

\* the effects of the first render
Mount ==
    /\ Open
    /\ ~page.initialLoadRef
    /\ Handled(firstEffect(page, search.types), pending)
    /\ elapsed' = 0
    /\ UNCHANGED <<serving, applied, returned, search, failed>>

\* the candidate changes the answer
Type(text) ==
    /\ Running
    /\ screen(page) = "question"
    /\ text # page.answer
    /\ page' = [page EXCEPT !.answer = text]
    /\ elapsed' = 0
    /\ UNCHANGED <<serving, applied, returned, search, pending, location,
                   localStorage, sent, failed>>

\* the candidate presses the button
Click ==
    /\ Running
    /\ buttonEnabled(page)
    /\ ~handleNextReturns(page)
    /\ Handled(handleNext(page, search.types, Len(sent) + 1), pending)
    /\ elapsed' = elapsed
    /\ UNCHANGED <<serving, applied, returned, search, failed>>

\* the i-th request in flight, one for an analysis, settles
AnalysisSettles(i, reply) ==
    /\ i \in DOMAIN pending
    /\ pending[i].kind = "analyze"
    /\ Handled(handleNextSettled(pending[i].render, page, reply, search,
                                 Len(sent) + 1),
               removeAt(pending, i))
    /\ Rearmed(handleNextSettled(pending[i].render, page, reply, search,
                                 Len(sent) + 1))
    /\ failed' = (failed \/ reply # "ok")
    /\ UNCHANGED <<serving, applied, returned, search>>

\* the i-th request in flight, one for a question, settles
QuestionSettles(i, reply) ==
    /\ i \in DOMAIN pending
    /\ pending[i].kind = "questions"
    /\ Handled(Done(questionSettled(page, pending[i], reply), <<>>, NoItem, ""),
               removeAt(pending, i))
    /\ Rearmed(Done(questionSettled(page, pending[i], reply), <<>>, NoItem, ""))
    /\ failed' = (failed \/ reply # "ok")
    /\ UNCHANGED <<serving, applied, returned, search>>

\* time passes on the open page, up to the moment the interval is due
Elapse ==
    /\ Running
    /\ elapsed < TIMER_INTERVAL
    /\ elapsed' = elapsed + ElapseStep
    /\ UNCHANGED <<serving, applied, returned, search, page, pending, location,
                   localStorage, sent, failed>>

\* the interval of the countdown fires
IntervalFires ==
    /\ Running
    /\ elapsed = TIMER_INTERVAL
    /\ Handled(timerFired(page), pending)
    /\ elapsed' = 0
    /\ UNCHANGED <<serving, applied, returned, search, failed>>

\* the candidate presses Return Home on the error screen
ReturnHome ==
    /\ Running
    /\ screen(page) = "error"
    /\ location' = "/"
    /\ elapsed' = 0
    /\ UNCHANGED <<serving, applied, returned, search, page, pending,
                   localStorage, sent, failed>>

PageNext ==
    \/ Mount
    \/ \E text \in TypedAnswers : Type(text)
    \/ Click
    \/ \E i \in DOMAIN pending, reply \in PageReplies : AnalysisSettles(i, reply)
    \/ \E i \in DOMAIN pending, reply \in PageReplies : QuestionSettles(i, reply)
    \/ Elapse
    \/ IntervalFires
    \/ ReturnHome

PageSpec == PageInit /\ [][PageNext]_vars

\* an interview of one multiple choice question
FairPageInit == PageInitOn({[numQuestions |-> 1, types |-> <<MCQ>>]})

\* the scheduling the browser guarantees: time passes, and an interval that
\* is due again and again fires
FairPageSpec ==
    /\ FairPageInit
    /\ [][PageNext]_vars
    /\ WF_vars(Elapse)
    /\ SF_vars(IntervalFires)

(***************************************************************************)
(* Properties.                                                             *)
(***************************************************************************)
\* consecutive entries of a history of instants are at least the interval
\* apart
Spaced(times) ==
    \A i \in 1..(Len(times) - 1) :
        times[i + 1] - times[i] >= MIN_REQUEST_INTERVAL

\* C1: when the calls of waitForRateLimit are serialized (none starts while
\* another is suspended in it), any two consecutive returns of it, and any
\* two consecutive dispatches of the outbound request, are at least 3000 ms
\* apart, and lastRequestTime is the clock value of the latest return.
C1_SerializedSpacing ==
    ~overlap =>
        /\ Spaced(slotTimes)
        /\ Spaced(dispatchTimes)
        /\ Len(slotTimes) > 0 => lastRequestTime = slotTimes[Len(slotTimes)]

\* three serialized requests, the second of which the limiter held back to
\* exactly the interval after the first
C1_Witness ==
    /\ ~overlap
    /\ Len(dispatchTimes) = 3
    /\ dispatchTimes[2] - dispatchTimes[1] = MIN_REQUEST_INTERVAL
    /\ dispatchTimes[3] - dispatchTimes[2] > MIN_REQUEST_INTERVAL

\* C2: the limiter does not order concurrent callers.  Two callers suspended
\* in the sleep at once, both having read the same lastRequestTime, are due
\* at the same instant (the stamp they read plus the interval): neither
\* waits for the other, so both may return and dispatch together.
C2_SleepersShareDeadline ==
    \A c \in Callers, d \in Callers :
        (/\ c # d
         /\ pc[c] = "sleeping"
         /\ pc[d] = "sleeping"
         /\ seenLast[c] = seenLast[d])
        => /\ wakeAt[c] = wakeAt[d]
           /\ wakeAt[c] = seenLast[c] + MIN_REQUEST_INTERVAL

\* the execution the claim names: the second caller entered while the first
\* slept, and the two returned and dispatched less than 3000 ms apart
C2_Witness ==
    /\ overlap
    /\ Len(dispatchTimes) = 3
    /\ dispatchTimes[3] - dispatchTimes[2] < MIN_REQUEST_INTERVAL
    /\ slotTimes[3] - slotTimes[2] < MIN_REQUEST_INTERVAL

\* C3: every call of waitForRateLimit returns: a suspended call is due within
\* 3000 ms, and eventually resumes; once resumed it does not suspend again.
C3_AwaitSlotReturns ==
    /\ [](\A c \in Callers :
            pc[c] = "sleeping" =>
                /\ wakeAt[c] - clock <= MIN_REQUEST_INTERVAL
                /\ wakeAt[c] > seenLast[c])
    /\ [][\A c \in Callers :
            /\ pc[c] = "sleeping" => pc'[c] \in {"sleeping", "slotReturned"}
            /\ pc[c] = "slotReturned" => pc'[c] = "fetching"]_vars
    /\ \A c \in Callers : (pc[c] = "sleeping") ~> (pc[c] = "fetching")

\* a call that slept the whole of a wait and has returned
C3_Witness ==
    \E c \in Callers :
        /\ pc[c] = "fetching"
        /\ wakeAt[c] > seenLast[c]
        /\ wakeAt[c] = seenLast[c] + MIN_REQUEST_INTERVAL
        /\ clock > wakeAt[c]

\* `out` is the answer to a multiple-choice scoring request
McqScored ==
    /\ out.route = "analyze"
    /\ out.body.valid
    /\ out.body.question # ""
    /\ truthy(out.body.response)
    /\ out.body.expectedTopics.t # "null"
    /\ toLowerCase(out.body.questionType) = MCQ
    /\ truthy(out.body.correctOption)

\* the candidate's label equals the correct one, letter case ignored
SameLabel(body) == toLowerCase(body.response) = toLowerCase(body.correctOption)

\* C4: for an mcq question with correctOption in {A, B, C, D} and any
\* candidate label, scoring answers with score 10 exactly when the label
\* equals the correct one ignoring letter case, and with score 0 otherwise.
C4_McqScore ==
    (McqScored /\ out.body.correctOption \in Labels) =>
        /\ out.status = 200
        /\ out.analysis.score \in {JNum(10, 1), JNum(0, 1)}
        /\ out.analysis.score = JNum(10, 1) <=> SameLabel(out.body)

\* a lower-case label scored against its upper-case correct option
C4_Witness ==
    /\ McqScored
    /\ out.body.correctOption = <<"D">>
    /\ out.body.response = <<"d">>
    /\ out.analysis.score = JNum(10, 1)

\* C5: every mcq scoring result splits expectedTopics deterministically: a
\* correct answer has coveredTopics = expectedTopics and no missingTopics, an
\* incorrect one no coveredTopics and missingTopics = expectedTopics.
C5_McqTopics ==
    McqScored =>
        /\ out.status = 200
        /\ SameLabel(out.body) =>
              /\ out.analysis.coveredTopics = out.body.expectedTopics
              /\ out.analysis.missingTopics = JArr(<<>>)
        /\ ~SameLabel(out.body) =>
              /\ out.analysis.coveredTopics = JArr(<<>>)
              /\ out.analysis.missingTopics = out.body.expectedTopics

\* an incorrect answer to a question with two expected topics
C5_Witness ==
    /\ McqScored
    /\ ~SameLabel(out.body)
    /\ out.body.expectedTopics = Topics12
    /\ out.analysis.missingTopics = Topics12

\* the state of the model pipeline: the limiter, the requests under way and
\* the requests dispatched
pipeline == <<lastRequestTime, pc, wakeAt, seenLast, job, slotTimes,
              dispatchTimes, overlap>>

\* C6: scoring an mcq answer never touches the model pipeline: the step that
\* produces the answer awaits no slot, dispatches no request and leaves
\* lastRequestTime as it was, whatever the candidate's label; and no request
\* under way in the pipeline is an mcq scoring request.
C6_McqFrame ==
    /\ [][(out' # out /\ McqScored') => UNCHANGED pipeline]_vars
    /\ [](\A c \in Callers :
            (pc[c] # "idle" /\ ~isQuestionBody(job[c]))
                => toLowerCase(job[c].questionType) # MCQ)

\* an mcq answer scored while one model request sleeps in the limiter and
\* another is in flight
C6_Witness ==
    /\ McqScored
    /\ out.status = 200
    /\ \E c \in Callers : pc[c] = "sleeping"
    /\ \E c \in Callers : pc[c] = "fetching"
    /\ Len(dispatchTimes) = 1

\* `out` is the answer to a scoring request that went to the model, and
\* `settled` the remote reply behind it
ModelScored == out.route = "analyze" /\ settled.net # "none"

\* the remote reply carries a JSON object the parser accepts as such
ParsedReply ==
    /\ settled.net = "http"
    /\ settled.status \in 200..299
    /\ settled.envelope = "content"
    /\ settled.content.json \in {"object", "repairable"}

\* C7: for subjective/coding scoring the score of the returned Analysis is
\* in [0, 10]: a model score above 10 is divided by 10 (85 becomes 8.5) and
\* then clamped, a negative score becomes 0, a non-numeric score becomes 0,
\* and a score already in [0, 10] is kept.
C7_ScoreRange ==
    (ModelScored /\ out.status = 200) =>
        LET given == settled.content.obj.score
            score == out.analysis.score
        IN  /\ score.t = "number" /\ score.inf = 0
            /\ RatLe(ZERO, score.q) /\ RatLe(score.q, TEN)
            /\ given.t # "number" => RatEq(score.q, ZERO)
            /\ (given.t = "number" /\ given.inf = 0) =>
                  /\ RatLt(given.q, ZERO) => RatEq(score.q, ZERO)
                  /\ (RatLe(ZERO, given.q) /\ RatLe(given.q, TEN)) =>
                        RatEq(score.q, given.q)
                  /\ (RatLt(TEN, given.q) /\ RatLe(given.q, <<100, 1>>)) =>
                        RatEq(score.q, <<given.q[1], 10 * given.q[2]>>)
                  /\ RatLt(<<100, 1>>, given.q) => RatEq(score.q, TEN)
            /\ (given.t = "number" /\ given.inf = 1) => RatEq(score.q, TEN)
            /\ (given.t = "number" /\ given.inf = -1) => RatEq(score.q, ZERO)
            /\ given = JNum(85, 1) => RatEq(score.q, <<17, 2>>)

\* the model scored 85 and the Analysis says 8.5
C7_Witness ==
    /\ ModelScored
    /\ out.status = 200
    /\ settled.content.obj.score = JNum(85, 1)
    /\ RatEq(out.analysis.score.q, <<17, 2>>)

TopicFields == {"coveredTopics", "missingTopics"}

\* C8 as claimed: when the model's JSON omits coveredTopics or missingTopics,
\* or gives a non-sequence value for either, scoring still succeeds and the
\* returned Analysis has that field as an empty sequence.
C8_Original ==
    \A f \in TopicFields :
        (/\ ModelScored
         /\ ParsedReply
         /\ {"score", "feedback"} \subseteq DOMAIN settled.content.obj
         /\ ~isArray(field(settled.content.obj, f)))
        => /\ out.status = 200
           /\ out.analysis[f] = JArr(<<>>)

\* C8 as the code has it: a non-sequence value given for coveredTopics or
\* missingTopics (all four required fields being there) is replaced by the
\* empty sequence and scoring succeeds; a reply that omits coveredTopics or
\* missingTopics is rejected by the parser, which requires both, and scoring
\* fails.
C8_Amended ==
    /\ (/\ ModelScored
        /\ ParsedReply
        /\ AnalysisFields \subseteq DOMAIN settled.content.obj)
       => /\ out.status = 200
          /\ \A f \in TopicFields :
                out.analysis[f] =
                    IF settled.content.obj[f].t = "array"
                    THEN settled.content.obj[f]
                    ELSE JArr(<<>>)
    /\ (/\ ModelScored
        /\ ParsedReply
        /\ ~(TopicFields \subseteq DOMAIN settled.content.obj))
       => /\ out.status = 500
          /\ out.details = "Failed to parse response as JSON"

\* a reply whose coveredTopics is a string, scored with no covered topics
C8_Witness ==
    /\ ModelScored
    /\ ParsedReply
    /\ AnalysisFields \subseteq DOMAIN settled.content.obj
    /\ settled.content.obj.coveredTopics = JStr("t1")
    /\ out.status = 200
    /\ out.analysis.coveredTopics = JArr(<<>>)

\* C9: with no API credential configured the model client fails with the
\* configuration error before anything else: no slot is awaited,
\* lastRequestTime stays as it was and no request is dispatched.
C9_NoKeyNoPipeline ==
    ~GROQ_API_KEY =>
        /\ lastRequestTime = 0
        /\ slotTimes = <<>>
        /\ dispatchTimes = <<>>
        /\ \A c \in Callers : pc[c] = "idle"
        /\ (/\ out.route = "analyze"
            /\ out.body.valid
            /\ out.body.question # ""
            /\ truthy(out.body.response)
            /\ out.body.expectedTopics.t # "null"
            /\ truthy(out.body.questionType)
            /\ toLowerCase(out.body.questionType) # MCQ)
           => /\ out.status = 500
              /\ out.details = "GROQ API key is not configured"

\* a free-text scoring request refused for the missing credential
C9_Witness ==
    /\ ~GROQ_API_KEY
    /\ out.body = ModelBody
    /\ out.details = "GROQ API key is not configured"

\* C10: an HTTP 429 reply always yields the rate-limit error and every other
\* non-success status the transport error; no 429 is reported as a transport
\* error and nothing else as a rate-limit error.
C10_StatusMapping ==
    ModelScored =>
        /\ (settled.net = "http" /\ settled.status = 429) =>
              out.details = "Rate limit exceeded"
        /\ (settled.net = "http" /\ settled.status \notin 200..299
            /\ settled.status # 429) =>
              out.details = "API request failed"
        /\ out.details = "Rate limit exceeded" =>
              (settled.net = "http" /\ settled.status = 429)
        /\ out.details = "API request failed" =>
              (settled.net = "http" /\ settled.status \notin 200..299
               /\ settled.status # 429)

\* a 429 reply reported as the rate-limit error
C10_Witness ==
    /\ ModelScored
    /\ settled.status = 429
    /\ out.status = 500
    /\ out.details = "Rate limit exceeded"

\* `out` is the answer to a question request that went to the model, and
\* `settled` the remote reply behind it
QuestionAnswered == out.route = "questions" /\ settled.net # "none"

\* C11 as claimed: when the remote service answers a question-generation
\* request with HTTP 429, the questions route answers with status 429 and
\* not with the generic status 500.
C11_RateLimitIs429 ==
    (QuestionAnswered /\ settled.net = "http" /\ settled.status = 429)
        => out.status = 429

\* what the route does instead: the remote 429 becomes the error 'Rate limit
\* exceeded', in which the route looks for 'rate limit', and answers 500
C11_Observed ==
    /\ QuestionAnswered
    /\ settled.status = 429
    /\ out.status = 500
    /\ out.error = "Rate limit exceeded"

\* what the pipeline makes of the reply that settles the request caller c
\* has in flight
resultOf(c, r) ==
    IF isQuestionBody(job[c])
    THEN generateReply(r, job[c].questionType)
    ELSE analyzeReply(r)

\* C12: every invocation of generateQuestion or of non-mcq scoring issues at
\* most one outbound model request; when its request has settled the
\* invocation is over, no further request is dispatched, and on any failure
\* (transport, rate limit, protocol, parse, validation) the route's response
\* is an error response that carries the error.
C12_OneRequest ==
    /\ [](\A c \in Callers : requests[c] <= 1)
    /\ [][\A c \in Callers :
            (pc[c] = "fetching" /\ pc'[c] # "fetching") =>
                /\ pc'[c] = "idle"
                /\ dispatchTimes' = dispatchTimes
                /\ ~resultOf(c, settled').ok =>
                      /\ out'.status \in {429, 500}
                      /\ out'.status = 500 =>
                            resultOf(c, settled').err \in {out'.error, out'.details}
         ]_vars

\* a question request whose only reply failed validation: one dispatch, the
\* validation error in the response, nobody in the pipeline any more
C12_Witness ==
    /\ QuestionAnswered
    /\ settled.envelope = "content"
    /\ settled.content.json = "object"
    /\ out.status = 500
    /\ out.error = "MCQ response must include options object"
    /\ Len(dispatchTimes) = 1
    /\ \A c \in Callers : pc[c] = "idle"

\* a question request is at the model, sent by caller c
QuestionInFlight(c) == pc[c] = "fetching" /\ isQuestionBody(job[c])

\* C20 as claimed: for a question requested through the questions route
\* with difficulty Easy, Medium or Hard, the prompt sent to the model names
\* that label as given and embeds the tier 1, 2 or 3 respectively, for every
\* question type.
C20_PromptTier ==
    \A c \in Callers :
        (QuestionInFlight(c) /\ job[c].difficulty \in Difficulties) =>
            /\ promptOf(job[c]).difficulty = job[c].difficulty
            /\ promptOf(job[c]).tier =
                  CASE job[c].difficulty = EASY -> 1
                    [] job[c].difficulty = MEDIUM -> 2
                    [] job[c].difficulty = HARD -> 3

\* what the route does instead: it lower-cases the label before it builds
\* the prompt, so the prompt says 'easy' and, the builder comparing with
\* 'Easy', embeds the tier 3
C20_Observed ==
    \E c \in Callers :
        /\ QuestionInFlight(c)
        /\ job[c].difficulty = EASY
        /\ promptOf(job[c]).difficulty = <<"e", "a", "s", "y">>
        /\ promptOf(job[c]).tier = 3
        /\ promptOf(job[c]).template = "coding"

\* the validator, or generateQuestion, has been applied to an mcq payload
McqValidated ==
    /\ returned.fn \in {"validate", "generate"}
    /\ isType(applied.questionType, MCQ)

\* payload p has a modelAnswer whose options have all four labels and whose
\* correctOption is one of them
wellLabelled(p) ==
    /\ "modelAnswer" \in DOMAIN p
    /\ p.modelAnswer.t = "object"
    /\ LET modelAnswer == p.modelAnswer.o IN
       /\ "options" \in DOMAIN modelAnswer
       /\ modelAnswer.options.t = "object"
       /\ RequiredOptions \subseteq DOMAIN modelAnswer.options.o
       /\ "correctOption" \in DOMAIN modelAnswer
       /\ modelAnswer.correctOption \in {JStr(l) : l \in RequiredOptions}

\* C17: the validator rejects every mcq payload whose modelAnswer.options
\* lacks one of the labels A, B, C, D and every mcq payload whose
\* correctOption is not one of A, B, C, D; so every mcq question that
\* generateQuestion returns is the payload it was given, with all four
\* labels and a correctOption among them.
C17_McqLabels ==
    McqValidated =>
        /\ ~wellLabelled(applied.payload) => ~returned.ok
        /\ returned.ok =>
              /\ returned.val = applied.payload
              /\ wellLabelled(returned.val)

\* generateQuestion given options A, B, C only, with correctOption A: it
\* throws the missing-options error
C17_Witness ==
    /\ McqValidated
    /\ returned.fn = "generate"
    /\ "modelAnswer" \in DOMAIN applied.payload
    /\ applied.payload.modelAnswer.t = "object"
    /\ applied.payload.modelAnswer.o =
          [options |-> JObj([l \in {"A", "B", "C"} |-> JStr("x")]),
           correctOption |-> JStr("A"), explanation |-> JStr("why")]
    /\ ~returned.ok
    /\ returned.err = "Missing MCQ options"

\* C18 as claimed: every mcq question that generateQuestion returns has a
\* modelAnswer.options with exactly the four entries A, B, C, D and nothing
\* else.
C18_ExactlyFour ==
    (McqValidated /\ returned.fn = "generate" /\ returned.ok) =>
        DOMAIN returned.val.modelAnswer.o.options.o = RequiredOptions

\* what happens instead: a payload with a fifth option E is returned as it
\* is
C18_Observed ==
    /\ McqValidated
    /\ returned.fn = "generate"
    /\ returned.ok
    /\ DOMAIN returned.val.modelAnswer.o.options.o = RequiredOptions \cup {"E"}

\* v is an ordered sequence of strings
isStringSequence(v) ==
    isArray(v) /\ \A i \in DOMAIN v.a : v.a[i].t = "string"

\* the first violation of the base shape of payload p, in the order of the
\* claim ("" when there is none)
claimedViolation(p) ==
    IF ~(QuestionFields \subseteq DOMAIN p) THEN "Missing required fields"
    ELSE IF ~isStringSequence(p.expectedTopics)
    THEN "expectedTopics must be an array"
    ELSE IF p.difficulty.t # "number" THEN "difficulty must be a number"
    ELSE ""

\* C19 as claimed: the validator rejects every payload that violates the
\* base shape, checked in this order before any type-specific check: a field
\* among question, expectedTopics, difficulty, modelAnswer is missing;
\* expectedTopics is not an ordered sequence of strings; difficulty is not
\* numeric.  The error reported is the first violation in that order.
C19_BaseShape ==
    (returned.fn = "validate" /\ claimedViolation(applied.payload) # "") =>
        /\ ~returned.ok
        /\ returned.err = claimedViolation(applied.payload)

\* what happens instead: an expectedTopics with a number among its items
\* passes
C19_Observed ==
    /\ returned.fn = "validate"
    /\ returned.ok
    /\ applied.payload.expectedTopics = JArr(<<JStr("t1"), JNum(1, 1)>>)

\* parseJsonResponse has returned or thrown
ParseReturned == applied.fn = "parse" /\ returned.fn = "parse"

\* the parser on characters and the parser on content kinds agree on every
\* completion text
ParserAbstraction ==
    ParseReturned =>
        LET abstract == parseJsonResponse(contentOf(textOf(applied)),
                                          applied.fields)
        IN  /\ abstract.ok = returned.ok
            /\ abstract.err = returned.err
            /\ abstract.val = returned.val

\* the candidate, the span of the match, parses as JSON and lacks a required
\* field
candidateLacksField ==
    LET m == jsonMatch(textOf(applied))
        parsed == JSONparse(m.span)
    IN  /\ m.found
        /\ parsed.ok
        /\ missingFields(parsed.val.o, applied.fields) # {}

\* the error thrown names the missing fields: thrown by a required-fields
\* check, or the final error with the message of the second check in it
namesMissingFields ==
    \/ returned.err = MISSING_FIELDS
    \/ returned.err = PARSE_FAILED /\ returned.detail = MISSING_AFTER_CLEANING

\* C13 as claimed: whenever the extracted candidate parses as JSON but a
\* required field is absent from its top-level object, parseJsonResponse
\* fails with an error of missing fields and not with the error of a text
\* that does not parse (read in favour of the code: the final error counts
\* as one of missing fields when the message it embeds is one).
C13_SchemaError ==
    (ParseReturned /\ candidateLacksField) =>
        /\ ~returned.ok
        /\ namesMissingFields
        /\ returned.detail # SYNTAX_ERROR

\* what happens instead: a pretty-printed object without modelAnswer ends
\* in 'Failed to parse response as JSON', and the message it embeds is that
\* of a syntax error
C13_Observed ==
    /\ ParseReturned
    /\ candidateLacksField
    /\ applied.core = ObjectText(SubSeq(QuestionMembers(<<"Q">>), 1, 3), <<"\n">>)
    /\ applied.fields = QuestionFields
    /\ ~returned.ok
    /\ returned.err = PARSE_FAILED
    /\ returned.detail = SYNTAX_ERROR

\* the core of the completion text is a JSON object with the required fields
embedsObject ==
    /\ applied.core # <<>>
    /\ Head(applied.core) = "{"
    /\ JSONparse(applied.core).ok
    /\ missingFields(JSONparse(applied.core).val.o, applied.fields) = {}

\* the parser returned the members of the embedded object
recovered == returned.ok /\ returned.val = JSONparse(applied.core).val.o

\* C14 as claimed: for any syntactically valid JSON object that contains the
\* required fields and is embedded in a larger string with arbitrary leading
\* and trailing prose (including prose that itself contains brace
\* characters), parseJsonResponse returns exactly that object's fields.
C14_RoundTrip == (ParseReturned /\ embedsObject) => recovered

\* C14, amended: the same when the leading prose contains no "{" and the
\* trailing prose no "}".
C14_RoundTripBraceFree ==
    (/\ ParseReturned
     /\ embedsObject
     /\ "{" \notin chars(applied.lead)
     /\ "}" \notin chars(applied.trail)) => recovered

\* a pretty-printed question between a prose with "}" and a prose with "{"
\* is recovered by the first parse
C14_Witness ==
    /\ ParseReturned
    /\ embedsObject
    /\ applied.lead = <<"x", "}", " ">>
    /\ applied.trail = <<" ", "{">>
    /\ applied.core = ObjectText(QuestionMembers(<<"a", "}", "b">>), <<"\n", "\t">>)
    /\ recovered
    /\ returned.parses = 1
    /\ "modelAnswer" \in DOMAIN returned.val

\* the repair pass has run on a candidate that is valid JSON
RepairedValid == returned.fn = "repair" /\ JSONparse(applied.core).ok

\* C15 as claimed: the repair pass applied to a candidate that is already
\* valid JSON (multi-line, pretty-printed JSON with newlines or tabs between
\* tokens included) yields a string that still parses, and parses to the
\* same value.
C15_RepairIdempotent ==
    RepairedValid =>
        /\ returned.parsed.ok
        /\ returned.parsed.val = JSONparse(applied.core).val

\* what happens instead: the line breaks between the tokens of a valid
\* object come out as the two characters \ and n, and the text no longer
\* parses
C15_Observed ==
    /\ RepairedValid
    /\ applied.core = ObjectText(AnalysisMembers, <<"\n">>)
    /\ startsWith(returned.text, 1, <<"{", "\\", "n", "\"">>)
    /\ ~returned.parsed.ok

\* a "{" of the text that a "}" follows
hasBracePair(text) ==
    \E i, j \in DOMAIN text : i < j /\ text[i] = "{" /\ text[j] = "}"

\* C16: parseJsonResponse fails with 'No JSON object found in response'
\* exactly when the text (never empty: the callers throw on an empty
\* completion) contains no "{" that is followed later by a "}"; in that case
\* no JSON.parse and no repair pass is attempted.
C16_NoJsonFound ==
    ParseReturned =>
        /\ (returned.err = NO_JSON) <=> ~hasBracePair(textOf(applied))
        /\ returned.err = NO_JSON =>
              ~returned.ok /\ returned.parses = 0 /\ ~returned.repaired

\* a text with both braces, the "}" before the "{": no JSON found, nothing
\* parsed
C16_Witness ==
    /\ ParseReturned
    /\ textOf(applied) = <<"x", "}", " ", "{", " ", "o", "k">>
    /\ returned.err = NO_JSON
    /\ returned.parses = 0
    /\ ~returned.repaired

\* the requests of one kind the page has in flight
inFlight(kind) == {i \in DOMAIN pending : pending[i].kind = kind}

\* C21: within one interview session a scoring request and a question
\* request are never in flight at the same time, and at most one request of
\* each kind is in flight; so the next question is asked for only after the
\* scoring of the current answer has completed.
C21_Sequenced ==
    /\ Cardinality(inFlight("analyze")) <= 1
    /\ Cardinality(inFlight("questions")) <= 1
    /\ inFlight("analyze") = {} \/ inFlight("questions") = {}

\* the first answer is scored and the request for the second question is
\* the only one in flight
C21_Witness ==
    /\ Open
    /\ Len(page.answers) = 1
    /\ page.loading
    /\ Len(pending) = 1
    /\ pending[1].kind = "questions"
    /\ pending[1].position = 2

\* C22 as claimed: the k-th question of an interview is requested with
\* questionNumber = k, also when the request is made by handleNext right
\* after the question counter was advanced.
C22_OrdinalIsPosition ==
    \A k \in DOMAIN sent :
        sent[k].position = k /\ sent[k].questionNumber = k

\* what happens instead: the request for the second question, made by
\* handleNext while the page moves on to question 2, carries questionNumber 1
C22_Observed ==
    /\ Open
    /\ page.currentQuestionNumber = 2
    /\ Len(page.answers) = 1
    /\ Len(sent) = 2
    /\ sent[2].position = 2
    /\ sent[2].questionNumber = 1
    /\ sent[1].questionNumber = 1

\* the type of the answer input on the page, and the type sent for scoring
shownType == typeAt(search.types, page.currentQuestionNumber)

\* C23 as claimed: for every question of an interview with more than one
\* question type, the type sent when its answer is scored, and used to
\* choose the answer input, is the type the question was generated with.
C23_SameType ==
    Len(search.types) > 1 =>
        /\ \A i \in inFlight("analyze") :
              pending[i].questionType
                  = pending[i].render.currentQuestion.questionType
        /\ (Open /\ screen(page) = "question") =>
              shownType = page.currentQuestion.questionType

\* what happens instead: the second question was generated as a multiple
\* choice question and its answer is sent for scoring as one to a coding
\* question
C23_Observed ==
    /\ search.types = <<MCQ, CODING>>
    /\ Len(pending) = 1
    /\ pending[1].kind = "analyze"
    /\ pending[1].position = 2
    /\ pending[1].questionType = CODING
    /\ pending[1].render.currentQuestion.questionType = MCQ

\* the countdown has reached zero (only its interval sets timeLeft to 0, and
\* it leaves the page in the same turn)
Expired == page # <<>> /\ page.timeLeft = 0

\* C24 as claimed: when the countdown reaches zero, every answer already
\* scored in the session is in the persisted 'interviewAnswers' entry at
\* the moment the flow goes to the results page, whether or not the
\* candidate has typed anything for the current question.
C24_ScoredPersisted ==
    Expired =>
        \A i \in DOMAIN page.answers :
            /\ localStorage.set
            /\ i \in DOMAIN localStorage.answers
            /\ localStorage.answers[i] = page.answers[i]

\* what happens instead: one answer is scored, nothing is typed for the
\* second question when the countdown ends, and the flow is on the results
\* page with no 'interviewAnswers' entry
C24_Observed ==
    /\ Expired
    /\ location = "/results"
    /\ Len(page.answers) = 1
    /\ page.answers[1].analysis = SomeAnalysis
    /\ page.currentQuestion # NoQuestion
    /\ page.answer = <<>>
    /\ localStorage = NoItem

\* a scoring request of the open page settles without an analysis
ScoringFails ==
    /\ Open
    /\ \E i \in DOMAIN pending, reply \in PageReplies \ {"ok"} :
          AnalysisSettles(i, reply)

\* C25: when the scoring of the current answer fails inside handleNext, the
\* interview state is left as it was: no answer is appended, the question
\* counter and the current question are unchanged, the typed answer is
\* kept, no question request is issued, and analyzing is false again.
C25_FailureLeavesState ==
    [][ScoringFails =>
          /\ page' = [page EXCEPT !.analyzing = FALSE]
          /\ sent' = sent
          /\ inFlight("questions")' = {}
          /\ localStorage' = localStorage
          /\ location' = location]_vars

\* the scoring of the first answer has failed: the question and the typed
\* answer are still there and the button works again
C25_Witness ==
    /\ Open
    /\ failed
    /\ Len(sent) = 1
    /\ pending = <<>>
    /\ page.currentQuestion # NoQuestion
    /\ page.currentQuestionNumber = 1
    /\ page.answers = <<>>
    /\ page.answer = <<"A">>
    /\ ~page.analyzing
    /\ buttonEnabled(page)

\* the 'interviewAnswers' entry holds n answers, each with its analysis, the
\* i-th to the i-th question generated
holdsScored(n) ==
    /\ localStorage.set
    /\ Len(localStorage.answers) = n
    /\ \A i \in DOMAIN localStorage.answers :
          /\ localStorage.answers[i].analysis = SomeAnalysis
          /\ localStorage.answers[i].question.position = i

\* C26: if every scoring and question request succeeds and the countdown
\* does not end, the interview goes to the results page exactly when the
\* answer to question number TOTAL_QUESTIONS has been scored, and the
\* 'interviewAnswers' entry then holds exactly TOTAL_QUESTIONS answers, each
\* with its analysis, in question order.
C26_FinishesAtTotal ==
    (page # <<>> /\ ~failed /\ ~Expired) =>
        /\ location = "/results"
              <=> Len(page.answers) = TOTAL_QUESTIONS(search.numQuestions)
        /\ location = "/results"
              => /\ holdsScored(TOTAL_QUESTIONS(search.numQuestions))
                 /\ localStorage.answers = page.answers

\* an interview of three questions has ended with three scored answers
C26_Witness ==
    /\ location = "/results"
    /\ ~failed
    /\ ~Expired
    /\ search.numQuestions = 3
    /\ Len(sent) = 3
    /\ holdsScored(3)

\* the body is a JSON object that lacks a field its route requires
lacksField(body) ==
    /\ body.valid
    /\ IF isQuestionBody(body)
       THEN <<>> \in {body.technology, body.difficulty, body.questionType}
       ELSE \/ body.question = ""
            \/ body.response = <<>>
            \/ body.expectedTopics = JNull
            \/ body.questionType = <<>>
            \/ toLowerCase(body.questionType) = MCQ /\ body.correctOption = <<>>

\* C27: both routes answer a request that lacks a required field (analyze:
\* question, response, expectedTopics, questionType, and correctOption for
\* mcq; questions: technology, difficulty, questionType) with status 400,
\* before any model request is issued and without touching the rate
\* limiter: the step that produces the answer leaves the pipeline as it was,
\* and no request under way in the pipeline is for such a body.
C27_LackingRefused ==
    /\ [][(out' # out /\ lacksField(out'.body))
             => (out'.status = 400 /\ UNCHANGED pipeline)]_vars
    /\ [](\A c \in Callers : pc[c] # "idle" => ~lacksField(job[c]))

\* a question request without a difficulty refused while a model request of
\* the other caller is in flight and the limiter has given a slot
C27_Witness ==
    /\ scenario = "fields"
    /\ out.route = "questions"
    /\ out.status = 400
    /\ lacksField(out.body)
    /\ out.body.difficulty = <<>>
    /\ \E c \in Callers : pc[c] = "fetching"
    /\ lastRequestTime > 0

\* C28 as claimed: from any state of the interview page the countdown
\* eventually reaches 0 and the flow goes to the results page, whatever the
\* candidate types or submits in between, the ticks of the timer being
\* fair (read in favour of the code: it is enough that the flow leaves the
\* interview page at all, by the countdown, by the last answer or by Return
\* Home).
C28_CountdownEnds == [](Open => <>(~Open))

\* what happens instead: the candidate has changed the answer half a second
\* after the interval was set, the interval is set anew, and the countdown
\* still shows the time it started with
C28_Observed ==
    /\ Open
    /\ screen(page) = "question"
    /\ page.answer = <<"A">>
    /\ page.timeLeft = INITIAL_TIME_LEFT
    /\ elapsed = 0
    /\ pending = <<>>

\* C29 as claimed: the time allotted to an interview is two minutes per
\* question: the countdown starts at TOTAL_TIME_SECONDS, that is
\* TOTAL_QUESTIONS * 2 * 60 seconds, for every allowed number of questions.
C29_TwoMinutesPerQuestion ==
    page # <<>> =>
        /\ page.timeLeft <= TOTAL_TIME_SECONDS(search.numQuestions)
        /\ (Open /\ page.answers = <<>> /\ elapsed = 0 /\ Len(sent) <= 1
                 /\ page.timeLeft >= INITIAL_TIME_LEFT)
              => page.timeLeft = TOTAL_TIME_SECONDS(search.numQuestions)

\* what happens instead: an interview of two questions has asked for its
\* first question and the countdown starts at 600 seconds, not at 240
C29_Observed ==
    /\ Running
    /\ search.numQuestions = 2
    /\ TOTAL_TIME_SECONDS(search.numQuestions) = 240
    /\ Len(sent) = 1
    /\ page.loading
    /\ elapsed = 0
    /\ page.timeLeft = 600

====
